---- MODULE Spec2Model ----
(***************************************************************************)
(* whisper-diarize-rs: the segment assembler (src/src/transcribe.rs,       *)
(* run_transcription_pipeline), the word timestamp reconstructor           *)
(* (get_word_timestamps), the subtitle formatter (src/src/formatting.rs)   *)
(* and the model downloads (src/src/model_manager.rs) as state machines.   *)
(*                                                                         *)
(* Representation.                                                         *)
(*  - A Rust String is a sequence of one-character strings.                *)
(*  - Option<T> is a sequence of length at most one: None is << >> and     *)
(*    Some(x) is <<x>>.                                                    *)
(*  - Times are integers counted in ticks of 0.005 s, so that the          *)
(*    centisecond values of the decoder (cs_to_s) and the midpoints of two *)
(*    alignment anchors are both exact.                                    *)
(***************************************************************************)
EXTENDS Integers, Sequences, FiniteSets, TLC

(***************************************************************************)
(* Bounds of the model.                                                    *)
(***************************************************************************)
MaxChunks == 2
MaxHyps == 2
MaxSegs == 3
MaxToks == 3
MaxWords == 3

\* A millisecond, in the time units of the formatter: fine enough for every
\* halving of clamp_and_merge_tiny_words over MaxWords words to be exact.
Ms == 2 ^ (3 * MaxWords)

None == << >>
Some(x) == <<x>>
IsSome(o) == Len(o) = 1
Unwrap(o) == o[1]

Min(a, b) == IF a < b THEN a ELSE b
Abs(a) == IF a < 0 THEN -a ELSE a
Last(s) == s[Len(s)]
Range(s) == {s[k] : k \in 1..Len(s)}

(***************************************************************************)
(* Strings.                                                                *)
(***************************************************************************)
WhiteSpace == {" ", "\n", "\t"}
Nul == "NUL"
UpperDigitUnderscore ==
    {"A","B","C","D","E","F","G","H","I","J","K","L","M","N","O","P","Q","R",
     "S","T","U","V","W","X","Y","Z","0","1","2","3","4","5","6","7","8","9","_"}

Lowercase ==
    {"a","b","c","d","e","f","g","h","i","j","k","l","m","n","o","p","q","r",
     "s","t","u","v","w","x","y","z"}
Uppercase ==
    {"A","B","C","D","E","F","G","H","I","J","K","L","M","N","O","P","Q","R",
     "S","T","U","V","W","X","Y","Z"}
Max(a, b) == IF a > b THEN a ELSE b

RECURSIVE TrimStart(_)
TrimStart(s) ==
    IF s # << >> /\ Head(s) \in WhiteSpace THEN TrimStart(Tail(s)) ELSE s

RECURSIVE TrimEnd(_)
TrimEnd(s) ==
    IF s # << >> /\ Last(s) \in WhiteSpace
    THEN TrimEnd(SubSeq(s, 1, Len(s) - 1)) ELSE s

Trim(s) == TrimEnd(TrimStart(s))

RECURSIVE TrimNul(_)
TrimNul(s) ==
    IF s # << >> /\ Head(s) = Nul THEN TrimNul(Tail(s))
    ELSE IF s # << >> /\ Last(s) = Nul THEN TrimNul(SubSeq(s, 1, Len(s) - 1))
    ELSE s

\* utils.rs cs_to_s: centiseconds to seconds (here: to ticks of 0.005 s).
CsToS(cs) == 2 * cs

(***************************************************************************)
(* Word timestamp reconstructor (transcribe.rs, get_word_timestamps).      *)
(* A raw token is [text, p, t0, t1, t_dtw]: t0, t1 and t_dtw are the       *)
(* decoder's centiseconds, t_dtw = -1 when no alignment anchor exists.     *)
(***************************************************************************)
IsWholeControlToken(s) ==
    LET t == Trim(TrimNul(s)) IN
    /\ Len(t) >= 2
    /\ t[1] = "[" /\ t[2] = "_"
    /\ Last(t) = "]"
    /\ LET inner == SubSeq(t, 3, Len(t) - 1) IN
       /\ inner # << >>
       /\ \A k \in 1..Len(inner) : inner[k] \in UpperDigitUnderscore

RECURSIVE FindClose(_, _)
FindClose(chars, j) ==
    IF j <= Len(chars) /\ chars[j] # "]" THEN FindClose(chars, j + 1) ELSE j

RECURSIVE StripFrom(_, _)
StripFrom(chars, i) ==
    IF i > Len(chars) THEN << >>
    ELSE IF i + 1 <= Len(chars) /\ chars[i] = "[" /\ chars[i + 1] = "_"
    THEN LET j == FindClose(chars, i + 2) IN
         IF j <= Len(chars) /\ IsWholeControlToken(SubSeq(chars, i, j))
         THEN StripFrom(chars, j + 1)
         ELSE <<chars[i]>> \o StripFrom(chars, i + 1)
    ELSE <<chars[i]>> \o StripFrom(chars, i + 1)

StripEmbeddedControlMarkers(s) == StripFrom(s, 1)

\* The token filter of get_word_timestamps (lines 218-247).
RECURSIVE CleanToks(_)
CleanToks(raw) ==
    IF raw = << >> THEN << >>
    ELSE LET tok == Head(raw)
             clean == StripEmbeddedControlMarkers(tok.text)
         IN IF IsWholeControlToken(tok.text) THEN CleanToks(Tail(raw))
            ELSE IF Trim(TrimNul(clean)) = << >> THEN CleanToks(Tail(raw))
            ELSE << [text |-> clean, p |-> tok.p,
                     t0 |-> CsToS(tok.t0), t1 |-> CsToS(tok.t1),
                     anchor |-> IF tok.t_dtw >= 0 THEN Some(CsToS(tok.t_dtw))
                                ELSE None] >> \o CleanToks(Tail(raw))

\* A variant of TokBounds that ends every token where it starts.
TokBoundsPoint(toks) ==
    [k \in 1..Len(toks) |-> [start |-> toks[k].t0, end |-> toks[k].t0]]

\* Token bounds: midpoints of neighbouring anchors, else the coarse t0/t1.
TokBounds(toks) ==
    [k \in 1..Len(toks) |->
        LET a_prev == IF k > 1 THEN toks[k - 1].anchor ELSE None
            a_here == toks[k].anchor
            a_next == IF k < Len(toks) THEN toks[k + 1].anchor ELSE None
        IN [start |-> IF IsSome(a_prev) /\ IsSome(a_here)
                      THEN (Unwrap(a_prev) + Unwrap(a_here)) \div 2
                      ELSE toks[k].t0,
            end |-> IF IsSome(a_here) /\ IsSome(a_next)
                    THEN (Unwrap(a_here) + Unwrap(a_next)) \div 2
                    ELSE toks[k].t1]]

\* Push the word under construction, unless it trims to nothing.
\* The probability is the mean of the tokens' p, kept as the exact fraction.
FlushWord(st) ==
    LET w == Trim(st.cur) IN
    IF w # << >>
    THEN Append(st.words, [word |-> w, start |-> st.w_start, end |-> st.w_end,
                           probability |-> [sum |-> st.psum, n |-> st.pn]])
    ELSE st.words

\* The grouping loop, lines 279-301: st is the loop's local state.
RECURSIVE GroupFrom(_, _, _, _)
GroupFrom(toks, bounds, k, st) ==
    IF k > Len(toks) THEN st
    ELSE LET s == toks[k].text
             new_word_boundary == s # << >> /\ Head(s) \in {" ", "\n"}
             st1 == IF new_word_boundary /\ st.started
                    THEN [st EXCEPT !.words = FlushWord(st), !.cur = << >>,
                                    !.psum = 0, !.pn = 0, !.started = FALSE]
                    ELSE st
             st2 == IF ~st1.started
                    THEN [st1 EXCEPT !.w_start = bounds[k].start, !.started = TRUE]
                    ELSE st1
         IN GroupFrom(toks, bounds, k + 1,
                      [st2 EXCEPT !.w_end = bounds[k].end,
                                  !.cur = st2.cur \o s,
                                  !.psum = st2.psum + toks[k].p,
                                  !.pn = st2.pn + 1])

GetWordTimestamps(raw) ==
    LET toks == CleanToks(raw) IN
    IF toks = << >> THEN << >>
    ELSE LET bounds == TokBounds(toks)
             st == GroupFrom(toks, bounds, 1,
                       [words |-> << >>, cur |-> << >>, psum |-> 0, pn |-> 0,
                        w_start |-> bounds[1].start, w_end |-> bounds[1].end,
                        started |-> FALSE])
         IN IF st.started THEN FlushWord(st) ELSE st.words

(***************************************************************************)
(* Speaker registry (pyannote_rs::EmbeddingManager, an external crate),    *)
(* as the assembler depends on it: spec section 4.3.  An embedding is an   *)
(* integer, the similarity of two embeddings falls with their distance and *)
(* is counted in hundredths.  Equal best similarities are resolved by the  *)
(* registry's iteration order, so a lookup yields a set of outcomes.       *)
(***************************************************************************)
UsizeMax == 2147483647
DefaultThreshold == 50

Similarity(a, b) == 100 - 40 * Abs(a - b)

Nearest(speakers, ids, e) ==
    {id \in ids : \A o \in ids :
        Similarity(e, speakers[o]) <= Similarity(e, speakers[id])}

\* search_speaker: the best registered speaker above the threshold, else a
\* new speaker while the registry has room, else nothing.
SearchSpeaker(speakers, max_speakers, e, threshold) ==
    LET above == {id \in 1..Len(speakers) :
                     Similarity(e, speakers[id]) > threshold}
    IN IF above # {}
       THEN {[id |-> Some(id), speakers |-> speakers] :
                id \in Nearest(speakers, above, e)}
       ELSE IF Len(speakers) < max_speakers
       THEN {[id |-> Some(Len(speakers) + 1), speakers |-> Append(speakers, e)]}
       ELSE {[id |-> None, speakers |-> speakers]}

\* get_best_speaker_match: the nearest registered speaker, whatever its score.
GetBestSpeakerMatch(speakers, e) ==
    IF speakers = << >> THEN {[id |-> None, speakers |-> speakers]}
    ELSE {[id |-> Some(id), speakers |-> speakers] :
             id \in Nearest(speakers, 1..Len(speakers), e)}

\* usize::to_string of a speaker id.
Digits == <<"1", "2", "3", "4", "5", "6", "7", "8", "9">>
IdToString(id) == Digits[id]
Unknown == "?"

(***************************************************************************)
(* Engine::transcribe_audio: the diarization options handed to the         *)
(* pipeline.  max_speakers of None or Some(0) means no limit.              *)
(***************************************************************************)
EngineMaxSpeakers(opt) ==
    IF opt = None \/ opt = Some(0) THEN UsizeMax ELSE Unwrap(opt)

EngineDiarizeOptions(enable_diarize, max_speakers_opt) ==
    IF enable_diarize
    THEN Some([threshold |-> DefaultThreshold,
               max_speakers |-> EngineMaxSpeakers(max_speakers_opt)])
    ELSE None

(***************************************************************************)
(* The steps of one pass of the hypothesis loop of                         *)
(* run_transcription_pipeline, as operators.                               *)
(***************************************************************************)
\* A variant of SegBounds that keeps the hypothesis's own bounds when a word
\* list exists.
SegBoundsApprox(approx_start, approx_end, word_timestamps, base_offset) ==
    [start |-> approx_start, end |-> approx_end,
     words |-> IF word_timestamps = << >> THEN None
               ELSE Some([k \in 1..Len(word_timestamps) |->
                            [word_timestamps[k] EXCEPT
                                !.start = @ + base_offset,
                                !.end = @ + base_offset]])]

\* Lines 410-430: the segment's bounds and word list.
SegBounds(approx_start, approx_end, word_timestamps, base_offset) ==
    IF word_timestamps = << >>
    THEN [start |-> approx_start, end |-> approx_end, words |-> None]
    ELSE LET ws == [k \in 1..Len(word_timestamps) |->
                       [word_timestamps[k] EXCEPT
                           !.start = @ + base_offset, !.end = @ + base_offset]]
         IN [start |-> ws[1].start, end |-> Last(ws).end, words |-> Some(ws)]

\* A variant of TrimLast that sets the previous end to the new start even
\* when that raises it.
TrimLastToStart(segs, seg_start) ==
    IF segs = << >> THEN segs
    ELSE [segs EXCEPT ![Len(segs)].end = seg_start]

\* A variant of TrimLast that lowers the last word's end and forgets the
\* segment's own end.
TrimLastWordOnly(segs, seg_start) ==
    IF segs = << >> THEN segs
    ELSE LET n == Len(segs)
             last == segs[n]
         IN IF IsSome(last.words) /\ Unwrap(last.words) # << >>
            THEN LET ws == Unwrap(last.words)
                     m == Len(ws)
                 IN [segs EXCEPT ![n].words =
                        Some([ws EXCEPT ![m].end = Min(ws[m].end, seg_start)])]
            ELSE segs

\* Lines 432-444: the previous segment yields to the new one.
TrimLast(segs, seg_start) ==
    IF segs = << >> THEN segs
    ELSE LET n == Len(segs)
             last == segs[n]
             end1 == IF last.end > seg_start THEN seg_start ELSE last.end
             words1 ==
                 IF IsSome(last.words) /\ Unwrap(last.words) # << >>
                 THEN LET ws == Unwrap(last.words)
                          m == Len(ws)
                      IN Some([ws EXCEPT ![m].end =
                                   IF ws[m].end > end1 THEN end1 ELSE ws[m].end])
                 ELSE last.words
         IN [segs EXCEPT ![n] = [last EXCEPT !.end = end1, !.words = words1]]

\* A variant of SpeakerOutcomes that leaves the segment without a label when
\* the extractor fails.
SpeakerOutcomesNoSentinel(dopts, speakers, embedding) ==
    IF dopts = None \/ embedding = None
    THEN {[speaker_id |-> None, speakers |-> speakers]}
    ELSE LET d == Unwrap(dopts)
             found == IF Len(speakers) = d.max_speakers
                      THEN GetBestSpeakerMatch(speakers, Unwrap(embedding))
                      ELSE SearchSpeaker(speakers, d.max_speakers,
                                         Unwrap(embedding), d.threshold)
         IN {[speaker_id |-> Some(IF IsSome(r.id) THEN IdToString(Unwrap(r.id))
                                  ELSE Unknown),
              speakers |-> r.speakers] : r \in found}

\* A variant of SpeakerOutcomes that searches by threshold even when the
\* registry is full.
SpeakerOutcomesAlwaysSearch(dopts, speakers, embedding) ==
    IF dopts = None
    THEN {[speaker_id |-> None, speakers |-> speakers]}
    ELSE IF embedding = None
    THEN {[speaker_id |-> Some(Unknown), speakers |-> speakers]}
    ELSE LET d == Unwrap(dopts)
             found == SearchSpeaker(speakers, d.max_speakers,
                                    Unwrap(embedding), d.threshold)
         IN {[speaker_id |-> Some(IF IsSome(r.id) THEN IdToString(Unwrap(r.id))
                                  ELSE Unknown),
              speakers |-> r.speakers] : r \in found}

\* Lines 446-482: the outcomes [speaker_id, speakers] of labelling one
\* hypothesis; embedding is None when the extractor failed.
SpeakerOutcomes(dopts, speakers, embedding) ==
    IF dopts = None
    THEN {[speaker_id |-> None, speakers |-> speakers]}
    ELSE IF embedding = None
    THEN {[speaker_id |-> Some(Unknown), speakers |-> speakers]}
    ELSE LET d == Unwrap(dopts)
             found == IF Len(speakers) = d.max_speakers
                      THEN GetBestSpeakerMatch(speakers, Unwrap(embedding))
                      ELSE SearchSpeaker(speakers, d.max_speakers,
                                         Unwrap(embedding), d.threshold)
         IN {[speaker_id |-> Some(IF IsSome(r.id) THEN IdToString(Unwrap(r.id))
                                  ELSE Unknown),
              speakers |-> r.speakers] : r \in found}

\* Lines 397-403: the empty-segment diagnostic.
CountEmpty(empty_segments, text) ==
    IF Trim(text) = << >> THEN empty_segments + 1 ELSE empty_segments

\* Line 487: the text remembered for the next decode.
NextPreviousText(text) == IF Trim(text) # << >> THEN Some(text) ELSE None

\* Line 505: ((i + 1) as f64 / len as f64 * 100.0) as i32; for the list
\* lengths of this model the truncated float equals the integer quotient.
ProgressPercent(i, len) == ((i + 1) * 100) \div len

(***************************************************************************)
(* Subtitle formatter (formatting.rs).  Times are integers, in units of    *)
(* which Ms make a millisecond; a word or token is [word, punc, start,     *)
(* end].                                                                   *)
(***************************************************************************)
\* PostProcessConfig::default, lines 52-66.
Default ==
    [max_chars_per_line |-> 38, max_lines |-> 1, cps_cap |-> 17,
     split_gap_sec |-> 500 * Ms, comma_min_chars_before_allow |-> 55,
     min_word_dur |-> 100 * Ms, min_sub_dur |-> 1000 * Ms,
     max_sub_dur |-> 6000 * Ms, soft_max_words_per_line |-> 0]

\* NoSilence, lines 75-76, and VadMaskOracle::new, lines 86-91: the mask is
\* a list of speech intervals <<s, e>>, sorted, each with e > s.
NoSilence == [kind |-> "NoSilence", mask |-> << >>]
VadMaskOracle(mask) == [kind |-> "VadMask", mask |-> mask]

\* VadMaskOracle::is_silence, lines 95-105, from interval k of the mask on.
RECURSIVE MaskSilence(_, _, _, _)
MaskSilence(mask, k, t0, t1) ==
    IF k > Len(mask) THEN TRUE
    ELSE IF mask[k][2] <= t0 THEN MaskSilence(mask, k + 1, t0, t1)
    ELSE IF mask[k][1] >= t1 THEN TRUE
    ELSE IF mask[k][2] > t0 /\ mask[k][1] < t1 THEN FALSE
    ELSE MaskSilence(mask, k + 1, t0, t1)

\* oracle.is_silence(t0, t1).
IsSilence(oracle, t0, t1) ==
    IF oracle.kind = "NoSilence" THEN FALSE
    ELSE IF t1 <= t0 THEN TRUE
    ELSE MaskSilence(oracle.mask, 1, t0, t1)

\* The characters of the punctuation lists that take three bytes in UTF-8.
Ellipsis == "U+2026"
CjkStop == "U+3002"
CjkExcl == "U+FF01"
CjkQuest == "U+FF1F"
CjkComma == "U+FF0C"
CjkEnumComma == "U+3001"
ThreeBytes == {Ellipsis, CjkStop, CjkExcl, CjkQuest, CjkComma, CjkEnumComma}

\* str::len: the length in bytes.
RECURSIVE ByteLen(_)
ByteLen(s) ==
    IF s = << >> THEN 0
    ELSE (IF Head(s) \in ThreeBytes THEN 3 ELSE 1) + ByteLen(Tail(s))

\* Lines 178-181: a byte is compared as a char, so only the one-byte members
\* of the list can match.
PuncBytes == {".", "!", "?", ",", ";", ":", ")", "]", "}", "\""}

\* Lines 173-186: [core, punc], punc the longest suffix of punctuation bytes.
RECURSIVE PuncCut(_, _)
PuncCut(s, idx) ==
    IF idx >= 1 /\ s[idx] \in PuncBytes THEN PuncCut(s, idx - 1) ELSE idx
split_trailing_punct(s) ==
    LET cut == PuncCut(s, Len(s))
    IN [core |-> SubSeq(s, 1, cut), punc |-> SubSeq(s, cut + 1, Len(s))]

\* Lines 188-192.
is_terminal_punct(p) ==
    p \in {<<".">>, <<"!">>, <<"?">>, <<Ellipsis>>, <<CjkStop>>, <<CjkExcl>>,
           <<CjkQuest>>}
is_comma_like(p) == p \in {<<",">>, <<CjkComma>>, <<CjkEnumComma>>, <<";">>}

\* Lines 116-148: the words of all segments in order, a segment without word
\* list counting as one word when its text is not blank; then each word
\* split into core and trailing punctuation.
RECURSIVE Flatten(_)
Flatten(segs) ==
    IF segs = << >> THEN << >>
    ELSE LET seg == Head(segs)
             ws == IF IsSome(seg.words)
                   THEN [k \in 1..Len(Unwrap(seg.words)) |->
                            [speaker |-> seg.speaker_id,
                             w |-> Unwrap(seg.words)[k]]]
                   ELSE IF Trim(seg.text) # << >>
                   THEN <<[speaker |-> seg.speaker_id,
                           w |-> [word |-> seg.text, start |-> seg.start,
                                  end |-> seg.end, probability |-> None]]>>
                   ELSE << >>
         IN ws \o Flatten(Tail(segs))
Normalize(all) ==
    [k \in 1..Len(all) |->
        LET cp == split_trailing_punct(all[k].w.word)
        IN [word |-> cp.core, punc |-> cp.punc, start |-> all[k].w.start,
            end |-> all[k].w.end, prob |-> all[k].w.probability,
            speaker |-> all[k].speaker]]

\* Lines 198-225, the pass over token i (from 1) and the tokens after it.
RECURSIVE ClampFrom(_, _, _, _)
ClampFrom(toks, k, cfg, oracle) ==
    IF k > Len(toks) THEN toks
    ELSE LET dur == toks[k].end - toks[k].start
             grow == (cfg.min_word_dur - dur) \div 2
             a == IF dur < cfg.min_word_dur
                  THEN [toks EXCEPT ![k].start = @ - grow, ![k].end = @ + grow]
                  ELSE toks
             mid1 == (a[k - 1].end + a[k].start) \div 2
             b == IF k > 1
                  THEN [a EXCEPT ![k - 1].end = Min(@, mid1),
                                 ![k].start = Max(@, mid1)]
                  ELSE a
             mid2 == (b[k].end + b[k + 1].start) \div 2
             c == IF k + 1 <= Len(toks)
                  THEN [b EXCEPT ![k].end = Min(@, mid2),
                                 ![k + 1].start = Max(@, mid2)]
                  ELSE b
             pad == 20 * Ms
             d == IF IsSilence(oracle, c[k].start - pad, c[k].start)
                  THEN [c EXCEPT ![k].start = @ + pad] ELSE c
             e == IF IsSilence(oracle, d[k].end, d[k].end + pad)
                  THEN [d EXCEPT ![k].end = @ - pad] ELSE d
         IN ClampFrom(e, k + 1, cfg, oracle)

\* A variant of join_tokens that keeps the second token's text only.
join_tokensSecondOnly(a, b) == [word |-> b.word, punc |-> b.punc]

\* Lines 258-266.
join_tokens(a, b) ==
    [word |-> a.word \o a.punc
                \o (IF a.word # << >> /\ b.word # << >> THEN <<" ">> ELSE << >>)
                \o b.word,
     punc |-> b.punc]

\* A variant of MergeFrom that keeps the following token's start.
RECURSIVE MergeFromKeepStart(_, _, _, _)
MergeFromKeepStart(toks, k, out, cfg) ==
    IF k > Len(toks) THEN out
    ELSE LET dur == toks[k].end - toks[k].start
         IN IF dur < cfg.min_word_dur /\ k + 1 <= Len(toks)
            THEN LET m == join_tokens(toks[k], toks[k + 1])
                 IN MergeFromKeepStart(toks, k + 2,
                        Append(out, [toks[k + 1] EXCEPT
                                        !.word = m.word, !.punc = m.punc]),
                        cfg)
            ELSE IF dur < cfg.min_word_dur /\ k > 1
            THEN LET prev == Last(out)
                     m == join_tokens(prev, toks[k])
                 IN MergeFromKeepStart(toks, k + 1,
                        Append(SubSeq(out, 1, Len(out) - 1),
                               [prev EXCEPT !.word = m.word, !.punc = m.punc,
                                            !.end = Max(@, toks[k].end)]),
                        cfg)
            ELSE MergeFromKeepStart(toks, k + 1, Append(out, toks[k]), cfg)

\* Lines 227-255, the second pass from token k (from 1) on.
RECURSIVE MergeFrom(_, _, _, _)
MergeFrom(toks, k, out, cfg) ==
    IF k > Len(toks) THEN out
    ELSE LET dur == toks[k].end - toks[k].start
         IN IF dur < cfg.min_word_dur /\ k + 1 <= Len(toks)
            THEN LET m == join_tokens(toks[k], toks[k + 1])
                 IN MergeFrom(toks, k + 2,
                        Append(out, [toks[k + 1] EXCEPT
                                        !.word = m.word, !.punc = m.punc,
                                        !.start = Min(toks[k].start, @)]),
                        cfg)
            ELSE IF dur < cfg.min_word_dur /\ k > 1
            THEN LET prev == Last(out)
                     m == join_tokens(prev, toks[k])
                 IN MergeFrom(toks, k + 1,
                        Append(SubSeq(out, 1, Len(out) - 1),
                               [prev EXCEPT !.word = m.word, !.punc = m.punc,
                                            !.end = Max(@, toks[k].end)]),
                        cfg)
            ELSE MergeFrom(toks, k + 1, Append(out, toks[k]), cfg)

\* Lines 194-256.
clamp_and_merge_tiny_words(toks, cfg, oracle) ==
    IF toks = << >> THEN toks
    ELSE MergeFrom(ClampFrom(toks, 1, cfg, oracle), 1, << >>, cfg)

\* Lines 268-281, from token k (from 1) on; cur is the group being filled.
RECURSIVE GroupsFrom(_, _, _, _, _)
GroupsFrom(toks, k, cur, groups, cfg) ==
    IF k > Len(toks)
    THEN IF cur # << >> THEN Append(groups, cur) ELSE groups
    ELSE LET t == toks[k]
             cur1 == Append(cur, t)
             strong_p == is_terminal_punct(t.punc)
             long_gap == /\ k + 1 <= Len(toks)
                         /\ toks[k + 1].start - t.end >= cfg.split_gap_sec
         IN IF strong_p \/ long_gap
            THEN GroupsFrom(toks, k + 1, << >>, Append(groups, cur1), cfg)
            ELSE GroupsFrom(toks, k + 1, cur1, groups, cfg)
split_into_groups(toks, cfg) == GroupsFrom(toks, 1, << >>, << >>, cfg)

\* Lines 311-315.
render_token(t) == t.word \o t.punc

\* Lines 394-402.
RECURSIVE render_slice(_)
render_slice(slice) ==
    IF slice = << >> THEN << >>
    ELSE IF Len(slice) = 1 THEN render_token(slice[1])
    ELSE render_token(slice[1]) \o <<" ">> \o render_slice(Tail(slice))

\* Lines 404-406 (and the third component of slice_stats, 320-324).
RECURSIVE TokBytes(_)
TokBytes(slice) ==
    IF slice = << >> THEN 0
    ELSE ByteLen(Head(slice).word) + ByteLen(Head(slice).punc)
         + TokBytes(Tail(slice))
slice_chars(slice) ==
    TokBytes(slice) + (IF slice = << >> THEN 0 ELSE Len(slice) - 1)

\* Lines 317-326.
slice_stats(slice) ==
    LET t0 == IF slice = << >> THEN 0 ELSE slice[1].start
        t1 == IF slice = << >> THEN t0 ELSE Last(slice).end
    IN [t0 |-> t0, t1 |-> t1, chars |-> slice_chars(slice)]

\* Lines 408-414, in hundredths.
length_penalty(chars, cap) ==
    IF chars <= cap THEN 0 ELSE 2 * (chars - cap) * (chars - cap)
soft_cap_penalty(v, cap) ==
    IF v <= cap THEN 0 ELSE (v - cap) * (v - cap)

\* str::to_lowercase, for the letters A to Z.
UpperSeq ==
    <<"A","B","C","D","E","F","G","H","I","J","K","L","M","N","O","P","Q","R",
      "S","T","U","V","W","X","Y","Z">>
LowerSeq ==
    <<"a","b","c","d","e","f","g","h","i","j","k","l","m","n","o","p","q","r",
      "s","t","u","v","w","x","y","z">>
to_lowercase(s) ==
    [k \in 1..Len(s) |->
        IF s[k] \in Uppercase
        THEN LowerSeq[CHOOSE n \in 1..26 : UpperSeq[n] = s[k]]
        ELSE s[k]]

\* split_whitespace().next() and .last(): None when there is no word.
RECURSIVE TakeWord(_)
TakeWord(s) ==
    IF s = << >> \/ Head(s) \in WhiteSpace THEN << >>
    ELSE <<Head(s)>> \o TakeWord(Tail(s))
RECURSIVE TakeWordBack(_)
TakeWordBack(s) ==
    IF s = << >> \/ Last(s) \in WhiteSpace THEN << >>
    ELSE TakeWordBack(SubSeq(s, 1, Len(s) - 1)) \o <<Last(s)>>
FirstWord(s) ==
    IF TrimStart(s) = << >> THEN None ELSE Some(TakeWord(TrimStart(s)))
LastWord(s) ==
    IF TrimEnd(s) = << >> THEN None ELSE Some(TakeWordBack(TrimEnd(s)))

\* A variant of syntax_penalty that penalizes nothing.
syntax_penalty_none(left, right) == 0

\* Lines 416-433, in hundredths.
SHORT_FUNCT ==
    {<<"i">>, <<"t","o">>, <<"a">>, <<"t","h","e">>, <<"a","n","d">>,
     <<"o","r">>, <<"o","f">>, <<"i","n">>, <<"o","n">>, <<"f","o","r">>,
     <<"w","i","t","h">>, <<"a","t">>}
syntax_penalty(left, right) ==
    LET starts_bad == /\ IsSome(FirstWord(right))
                      /\ to_lowercase(Unwrap(FirstWord(right))) \in SHORT_FUNCT
        ends_bad == /\ IsSome(LastWord(left))
                    /\ to_lowercase(Unwrap(LastWord(left))) \in SHORT_FUNCT
    IN (IF starts_bad THEN 30 ELSE 0) + (IF ends_bad THEN 25 ELSE 0)

\* A variant of IsCandidate without the fallback candidates.
IsCandidateNoFallback(slice, k, cfg) ==
    LET left_term == slice[k].punc
        gap == slice[k + 1].start - slice[k].end
    IN \/ is_terminal_punct(left_term)
       \/ gap >= cfg.split_gap_sec
       \/ /\ is_comma_like(left_term)
          /\ slice_chars(slice) >= cfg.comma_min_chars_before_allow

\* Lines 334-350: is k (tokens on the left, 1..len-1) a candidate split?
IsCandidate(slice, k, cfg) ==
    LET left_term == slice[k].punc
        gap == slice[k + 1].start - slice[k].end
    IN \/ is_terminal_punct(left_term)
       \/ gap >= cfg.split_gap_sec
       \/ /\ is_comma_like(left_term)
          /\ slice_chars(slice) >= cfg.comma_min_chars_before_allow
       \/ k % 2 = 0
       \/ k = Len(slice) \div 2
Candidates(slice, cfg) ==
    SelectSeq([k \in 1..(Len(slice) - 1) |-> k],
              LAMBDA k : IsCandidate(slice, k, cfg))

\* Lines 357-384: the score of candidate k, in hundredths.
Score(slice, k, cfg) ==
    LET left == SubSeq(slice, 1, k)
        right == SubSeq(slice, k + 1, Len(slice))
        len_pen == length_penalty(slice_chars(left), cfg.max_chars_per_line)
                   + length_penalty(slice_chars(right), cfg.max_chars_per_line)
        word_pen == IF cfg.soft_max_words_per_line > 0
                    THEN soft_cap_penalty(k, cfg.soft_max_words_per_line)
                         + soft_cap_penalty(Len(slice) - k,
                                            cfg.soft_max_words_per_line)
                    ELSE 0
        syntax_pen == syntax_penalty(render_slice(left), render_slice(right))
        left_term == slice[k].punc
        gap == slice[k + 1].start - slice[k].end
        bonus == (IF is_terminal_punct(left_term) THEN -60 ELSE 0)
                 + (IF gap >= cfg.split_gap_sec THEN -30 ELSE 0)
                 + (IF is_comma_like(left_term) THEN 15 ELSE 0)
    IN len_pen + word_pen + syntax_pen + bonus

\* A variant of BestFrom that takes the last of the candidates with the
\* lowest score.
RECURSIVE BestFromLast(_, _, _, _, _, _)
BestFromLast(slice, cands, n, best_k, best_score, cfg) ==
    IF n > Len(cands) THEN best_k
    ELSE LET score == Score(slice, cands[n], cfg)
         IN IF best_score = None \/ score <= Unwrap(best_score)
            THEN BestFromLast(slice, cands, n + 1, cands[n], Some(score), cfg)
            ELSE BestFromLast(slice, cands, n + 1, best_k, best_score, cfg)

\* Lines 354-386: the loop over the candidates; best_score is None for
\* f64::INFINITY.
RECURSIVE BestFrom(_, _, _, _, _, _)
BestFrom(slice, cands, n, best_k, best_score, cfg) ==
    IF n > Len(cands) THEN best_k
    ELSE LET score == Score(slice, cands[n], cfg)
         IN IF best_score = None \/ score < Unwrap(best_score)
            THEN BestFrom(slice, cands, n + 1, cands[n], Some(score), cfg)
            ELSE BestFrom(slice, cands, n + 1, best_k, best_score, cfg)

\* A variant of split_into_lines whose second line leaves out its first
\* token.
split_into_lines_drop(slice, cfg) ==
    IF slice = << >> THEN << << >> >>
    ELSE IF cfg.max_lines <= 1 THEN <<render_slice(slice)>>
    ELSE LET cands == Candidates(slice, cfg)
         IN IF cands = << >> THEN <<render_slice(slice)>>
            ELSE LET best_k == BestFrom(slice, cands, 1, cands[1], None, cfg)
                 IN <<render_slice(SubSeq(slice, 1, best_k)),
                      render_slice(SubSeq(slice, best_k + 2, Len(slice)))>>

\* Lines 328-392.
split_into_lines(slice, cfg) ==
    IF slice = << >> THEN << << >> >>
    ELSE IF cfg.max_lines <= 1 THEN <<render_slice(slice)>>
    ELSE LET cands == Candidates(slice, cfg)
         IN IF cands = << >> THEN <<render_slice(slice)>>
            ELSE LET best_k == BestFrom(slice, cands, 1, cands[1], None, cfg)
                 IN <<render_slice(SubSeq(slice, 1, best_k)),
                      render_slice(SubSeq(slice, best_k + 1, Len(slice)))>>

\* A variant of GrowWindow that never takes a second token.
GrowWindowOneToken(group, start_idx, jj, cfg) == jj

\* A variant of GrowWindow that grows on the characters-per-second test
\* alone.
RECURSIVE GrowWindowCpsOnly(_, _, _, _)
GrowWindowCpsOnly(group, start_idx, jj, cfg) ==
    LET st == slice_stats(SubSeq(group, start_idx + 1, jj))
        dur == Max(st.t1 - st.t0, Ms)
        next_ok == /\ jj < Len(group)
                   /\ dur < cfg.max_sub_dur
                   /\ st.chars * 1000 * Ms <= cfg.cps_cap * dur
    IN IF next_ok THEN GrowWindowCpsOnly(group, start_idx, jj + 1, cfg) ELSE jj

\* Lines 285-296: the end j of the window that starts at start_idx (tokens
\* start_idx+1 .. j of the group, from 1).
RECURSIVE GrowWindow(_, _, _, _)
GrowWindow(group, start_idx, jj, cfg) ==
    LET st == slice_stats(SubSeq(group, start_idx + 1, jj))
        dur == Max(st.t1 - st.t0, Ms)
        next_ok == /\ jj < Len(group)
                   /\ dur < cfg.max_sub_dur
                   /\ \/ st.chars * 1000 * Ms <= cfg.cps_cap * dur
                      \/ st.chars < cfg.max_chars_per_line * cfg.max_lines
    IN IF next_ok THEN GrowWindow(group, start_idx, jj + 1, cfg) ELSE jj

\* Lines 283-309: [j, cue].
build_cue(group, start_idx, cfg) ==
    LET jj == GrowWindow(group, start_idx, start_idx + 1, cfg)
        w_slice == SubSeq(group, start_idx + 1, jj)
        st == slice_stats(w_slice)
    IN [j |-> jj,
        cue |-> [start |-> Max(st.t0, 0), end |-> st.t1,
                 lines |-> split_into_lines(w_slice, cfg),
                 words |-> [k \in 1..Len(w_slice) |->
                               [word |-> render_token(w_slice[k]),
                                start |-> w_slice[k].start,
                                end |-> w_slice[k].end,
                                probability |-> w_slice[k].prob]],
                 speaker_id |-> w_slice[1].speaker]]

\* Lines 159-165: the cues of one group, from token start_idx on.
RECURSIVE CuesFrom(_, _, _)
CuesFrom(group, start_idx, cfg) ==
    IF start_idx >= Len(group) THEN << >>
    ELSE LET bc == build_cue(group, start_idx, cfg)
         IN <<bc.cue>> \o CuesFrom(group, bc.j, cfg)
RECURSIVE CuesOfGroups(_, _)
CuesOfGroups(groups, cfg) ==
    IF groups = << >> THEN << >>
    ELSE CuesFrom(Head(groups), 0, cfg) \o CuesOfGroups(Tail(groups), cfg)

\* Lines 109-169: process_segments as a function.
process_segments(segs, cfg, oracle) ==
    LET all == Flatten(segs)
    IN IF all = << >> THEN << >>
       ELSE CuesOfGroups(
                split_into_groups(
                    clamp_and_merge_tiny_words(Normalize(all), cfg, oracle),
                    cfg),
                cfg)

(***************************************************************************)
(* State.                                                                  *)
(***************************************************************************)
VARIABLES
    speech_segments,  \* the chunk list handed in: [start, end] in ticks
    options,          \* [word_timestamps, offset, init_prompt]
    diarize_options,  \* Option<[threshold, max_speakers]>
    callbacks,        \* which callbacks are registered (Some):
                      \* [progress, new_segment, is_cancelled]
    env,              \* what the decoder and the extractor may answer
    pc,               \* "chunk": at the head of the chunk loop; "seg": in the
                      \* hypothesis loop; "done": returned Ok; "failed": returned Err;
                      \* "idle": run_transcription_pipeline is not called
    i,                \* index of the current chunk, from 0
    num_segments,     \* state.full_n_segments() of the current chunk
    j,                \* hypotheses of the current chunk already processed
    seek,             \* end (cs) of the last hypothesis the decoder gave for this chunk
    prompt,           \* params' initial prompt: Option<String>
    previous_text,    \* Option<String>
    segments,         \* the segment list under construction
    speakers,         \* the registry's centroids, the speaker id is the index
    empty_segments,
    total_chars,
    abort,            \* what the cancellation predicate answers now
    result,           \* "running", "Ok" (segments returned) or "Err"
    events,           \* history: the observer calls, in order
    decodes,          \* history: the state.full calls, in order
    hyps,             \* history: the hypotheses read, in order
    \* get_word_timestamps called on its own:
    seg_tokens,       \* the raw tokens of the hypothesis handed in
    wt_words,         \* None before the call, Some(the words returned) after
    \* process_segments:
    in_segments,      \* the segment list handed in
    post_cfg,         \* the PostProcessConfig handed in
    silence,          \* the silence oracle handed in
    stage,            \* how far process_segments has come
    fmt_toks,         \* its local `toks`
    tok_groups,       \* its local `groups`
    g_idx,            \* the group the cueing loop is at, from 1
    t_idx,            \* its local `i`: the next token of that group, from 0
    out_cues,         \* its local `cues`
    cue_group,        \* history: the group each cue came from
    \* two run_transcription_pipeline calls at once:
    PROGRESS_CALLBACK,   \* the static's slot: Option<the call whose sink the
                         \* boxed closure feeds>
    calls,               \* per call: its arguments, its position, what it has
                         \* read and what its observers were told
    \* ensure_hub_model calls at once:
    ACTIVE_DOWNLOAD,     \* the static's slot: Option<token>, a token being
                         \* named after the call that made it
    DOWNLOAD_GENERATION, \* the static counter
    cancelled,           \* the tokens that are cancelled
    downloads,           \* per call: its arguments, its position, its progress
                         \* adapter
    setups,              \* history: the calls in the order they installed their
                         \* token
    deliveries           \* history: the progress callbacks made, in order

pipeline_vars ==
    <<speech_segments, options, diarize_options, callbacks, env, pc, i,
      num_segments, j, seek, prompt, previous_text, segments, speakers,
      empty_segments, total_chars, abort, result, events, decodes, hyps>>
reconstructor_vars == <<seg_tokens, wt_words>>
formatter_vars ==
    <<in_segments, post_cfg, silence, stage, fmt_toks, tok_groups, g_idx,
      t_idx, out_cues, cue_group>>
concurrent_vars == <<PROGRESS_CALLBACK, calls>>
download_vars ==
    <<ACTIVE_DOWNLOAD, DOWNLOAD_GENERATION, cancelled, downloads, setups,
      deliveries>>
vars ==
    <<pipeline_vars, reconstructor_vars, formatter_vars, concurrent_vars,
      download_vars>>

\* The state of a component that is not called.
PipelineIdle ==
    /\ env = [texts |-> {}, times |-> {}, toks |-> {}, embs |-> {},
              wt |-> {}, offs |-> {}, diar |-> {}, cbs |-> {}]
    /\ speech_segments = << >>
    /\ options = [word_timestamps |-> FALSE, offset |-> 0, init_prompt |-> None]
    /\ diarize_options = None
    /\ callbacks = [progress |-> FALSE, new_segment |-> FALSE,
                    is_cancelled |-> FALSE]
    /\ pc = "idle"
    /\ i = 0
    /\ num_segments = 0
    /\ j = 0
    /\ seek = 0
    /\ prompt = None
    /\ previous_text = None
    /\ segments = << >>
    /\ speakers = << >>
    /\ empty_segments = 0
    /\ total_chars = 0
    /\ abort = FALSE
    /\ result = "running"
    /\ events = << >>
    /\ decodes = << >>
    /\ hyps = << >>
ReconstructorIdle ==
    /\ seg_tokens = << >>
    /\ wt_words = None
FormatterIdle ==
    /\ in_segments = << >>
    /\ post_cfg = Default
    /\ silence = NoSilence
    /\ stage = "idle"
    /\ fmt_toks = << >>
    /\ tok_groups = << >>
    /\ g_idx = 0
    /\ t_idx = 0
    /\ out_cues = << >>
    /\ cue_group = << >>
ConcurrentIdle ==
    /\ PROGRESS_CALLBACK = None
    /\ calls = << >>
DownloadIdle ==
    /\ ACTIVE_DOWNLOAD = None
    /\ DOWNLOAD_GENERATION = 0
    /\ cancelled = {}
    /\ downloads = << >>
    /\ setups = << >>
    /\ deliveries = << >>

(***************************************************************************)
(* Inputs.                                                                 *)
(***************************************************************************)
\* Chunk lists in chronological order: chunks of 4 ticks on a grid.
ChunkStarts == {4 * k : k \in 0..(MaxChunks - 1)}
RECURSIVE Increasing(_, _)
Increasing(S, n) ==
    IF n = 0 THEN {<< >>}
    ELSE {<< >>} \cup
         {<<x>> \o t : x \in S, t \in Increasing(S, n - 1)} 
ChunkLists ==
    {[k \in 1..Len(q) |-> [start |-> q[k], end |-> q[k] + 4]] :
        q \in {c \in Increasing(ChunkStarts, MaxChunks) :
                  \A k \in 1..(Len(c) - 1) : c[k] < c[k + 1]}}

Texts == {<< >>, <<" ">>, <<"a">>, <<" ", "b">>}
\* A hypothesis's start and end, in cs after the end of the one before it.
LocalCs == {0, 1, 3}
Times == {t \in LocalCs \X LocalCs : t[1] <= t[2]}
WordTok(t) ==
    [text |-> <<" ", "a">>, p |-> 50, t0 |-> t[1], t1 |-> t[2], t_dtw |-> -1]
TokLists == {<< >>} \cup {<<WordTok(t)>> : t \in Times}
Embeddings == {None, Some(1), Some(2), Some(4)}
MaxSpeakerOptions == {None, Some(0), Some(1), Some(2)}
\* options.offset.unwrap_or(0.0), in ticks.
Offsets == {0, 3}

AllCallbacks ==
    [progress : BOOLEAN, new_segment : BOOLEAN, is_cancelled : BOOLEAN]
Observers ==
    {[progress |-> TRUE, new_segment |-> TRUE, is_cancelled |-> FALSE]}
NoDiarize == {EngineDiarizeOptions(FALSE, None)}
Diarize == {EngineDiarizeOptions(TRUE, m) : m \in MaxSpeakerOptions}

\* The runs explored: each profile varies some of the inputs.
TextProfile ==
    [texts |-> Texts, times |-> {<<0, 1>>}, toks |-> {<< >>}, embs |-> {None},
     wt |-> {FALSE}, offs |-> {0}, diar |-> NoDiarize, cbs |-> AllCallbacks]
TimeProfile ==
    [texts |-> {<<"a">>}, times |-> Times, toks |-> {<< >>}, embs |-> {None},
     wt |-> {FALSE}, offs |-> {0}, diar |-> NoDiarize,
     cbs |-> [progress : {TRUE}, new_segment : {TRUE}, is_cancelled : BOOLEAN]]
WordProfile ==
    [texts |-> {<<"a">>}, times |-> {<<0, 1>>}, toks |-> TokLists,
     embs |-> {None}, wt |-> {TRUE}, offs |-> {0}, diar |-> NoDiarize,
     cbs |-> Observers]
SpeakerProfile ==
    [texts |-> {<<"a">>}, times |-> {<<0, 1>>}, toks |-> {<< >>},
     embs |-> Embeddings, wt |-> {FALSE}, offs |-> {0}, diar |-> Diarize,
     cbs |-> Observers]
MixedProfile ==
    [texts |-> {<<" ">>, <<" ", "b">>}, times |-> {<<1, 3>>},
     toks |-> {<< >>, <<WordTok(<<0, 3>>)>>}, embs |-> {None, Some(1)},
     wt |-> {TRUE}, offs |-> {0},
     diar |-> {EngineDiarizeOptions(TRUE, Some(1))}, cbs |-> Observers]
\* Runs with a caller's offset (options.offset), with and without word lists.
OffsetProfile ==
    [texts |-> {<<"a">>}, times |-> {<<0, 1>>, <<1, 3>>},
     toks |-> {<< >>, <<WordTok(<<0, 3>>)>>}, embs |-> {None},
     wt |-> BOOLEAN, offs |-> Offsets, diar |-> NoDiarize,
     cbs |-> [progress : {FALSE}, new_segment : {TRUE}, is_cancelled : BOOLEAN]]
Profiles == {TextProfile, TimeProfile, WordProfile, SpeakerProfile, MixedProfile}

InitWith(P) ==
    /\ env \in P
    /\ speech_segments \in ChunkLists
    /\ options \in [word_timestamps : env.wt, offset : env.offs, init_prompt : {None}]
    /\ diarize_options \in env.diar
    /\ callbacks \in env.cbs
    /\ pc = "chunk"
    /\ i = 0
    /\ num_segments = 0
    /\ j = 0
    /\ seek = 0
    /\ prompt = options.init_prompt
    /\ previous_text = None
    /\ segments = << >>
    /\ speakers = << >>
    /\ empty_segments = 0
    /\ total_chars = 0
    /\ abort = FALSE
    /\ result = "running"
    /\ events = << >>
    /\ decodes = << >>
    /\ hyps = << >>
    /\ ReconstructorIdle
    /\ FormatterIdle
    /\ ConcurrentIdle
    /\ DownloadIdle

Init == InitWith(Profiles)

(***************************************************************************)
(* run_transcription_pipeline.                                             *)
(***************************************************************************)
\* Lines 368-371: the prompt is set when previous_text is Some; otherwise
\* params keeps the prompt it already has.
PromptFor(cur_prompt, prev_text) ==
    IF IsSome(prev_text) THEN prev_text ELSE cur_prompt

\* A variant of Notifications that does not tell the new-segment observer
\* about a segment with empty text.
NotificationsSkipEmpty(cbs, segment, chunk, nchunks, hyp, len) ==
    (IF cbs.new_segment /\ segment.text # << >>
     THEN <<[kind |-> "segment", segment |-> segment, chunk |-> chunk,
             hyp |-> hyp, len |-> len]>>
     ELSE << >>)
    \o
    (IF cbs.progress
     THEN <<[kind |-> "progress", percent |-> ProgressPercent(chunk, nchunks),
             label |-> "Transcribing audio", chunk |-> chunk, hyp |-> hyp,
             len |-> len]>>
     ELSE << >>)

\* Lines 497-507: the observer calls of one hypothesis, in the order made.
\* `len` is the length of the segment list when the observers run.
Notifications(cbs, segment, chunk, nchunks, hyp, len) ==
    (IF cbs.new_segment
     THEN <<[kind |-> "segment", segment |-> segment, chunk |-> chunk,
             hyp |-> hyp, len |-> len]>>
     ELSE << >>)
    \o
    (IF cbs.progress
     THEN <<[kind |-> "progress", percent |-> ProgressPercent(chunk, nchunks),
             label |-> "Transcribing audio", chunk |-> chunk, hyp |-> hyp,
             len |-> len]>>
     ELSE << >>)

\* A variant of PushSegment that drops a segment with empty text.
PushSegmentSkipEmpty(segs, segment) ==
    IF segment.text = << >> THEN segs ELSE Append(segs, segment)

\* Line 508: the segment joins the list.
PushSegment(segs, segment) == Append(segs, segment)

\* Lines 361-376, decode succeeds: the head of the chunk loop up to the
\* hypothesis loop.  The decoder is handed the abort predicate and polls it
\* itself; the loop does not.  A chunk without hypotheses is finished here.
TranscribeChunk ==
    /\ pc = "chunk"
    /\ i < Len(speech_segments)
    /\ \E n \in 0..Min(MaxHyps, MaxSegs - Len(segments)) :
          /\ num_segments' = n
          /\ pc' = IF n > 0 THEN "seg" ELSE "chunk"
          /\ i' = IF n > 0 THEN i ELSE i + 1
    /\ prompt' = PromptFor(prompt, previous_text)
    /\ j' = 0
    /\ seek' = 0
    /\ decodes' = Append(decodes, [chunk |-> i, prompt |-> prompt',
                                   abort |-> abort, ok |-> TRUE,
                                   n |-> num_segments'])
    /\ UNCHANGED <<reconstructor_vars, formatter_vars, concurrent_vars,
                   download_vars,
                   speech_segments, options, diarize_options, callbacks, env,
                   previous_text, segments, speakers, empty_segments,
                   total_chars, abort, result, events, hyps>>

\* A variant of TranscribeChunkFails that skips the failed chunk and goes on.
TranscribeChunkFailsContinues ==
    /\ pc = "chunk"
    /\ i < Len(speech_segments)
    /\ prompt' = PromptFor(prompt, previous_text)
    /\ decodes' = Append(decodes, [chunk |-> i, prompt |-> prompt',
                                   abort |-> abort, ok |-> FALSE, n |-> 0])
    /\ i' = i + 1
    /\ UNCHANGED <<reconstructor_vars, formatter_vars, concurrent_vars,
                   download_vars,
                   speech_segments, options, diarize_options, callbacks, env,
                   pc, num_segments, j, seek, previous_text, segments, speakers,
                   empty_segments, total_chars, abort, result, events, hyps>>

\* Line 374, decode fails: `?` returns the error at once.
TranscribeChunkFails ==
    /\ pc = "chunk"
    /\ i < Len(speech_segments)
    /\ prompt' = PromptFor(prompt, previous_text)
    /\ decodes' = Append(decodes, [chunk |-> i, prompt |-> prompt',
                                   abort |-> abort, ok |-> FALSE, n |-> 0])
    /\ pc' = "failed"
    /\ result' = "Err"
    /\ UNCHANGED <<reconstructor_vars, formatter_vars, concurrent_vars,
                   download_vars,
                   speech_segments, options, diarize_options, callbacks, env,
                   i, num_segments, j, seek, previous_text, segments, speakers,
                   empty_segments, total_chars, abort, events, hyps>>

\* Lines 382-509: one pass of the hypothesis loop.  The decoder gives the
\* hypotheses of one chunk in time order, each starting at or after the end
\* of the one before it; the tokens' times are whatever the decoder says.
\* The test num_segments > 0 of line 448 is true throughout the loop.
ProcessSegment ==
    /\ pc = "seg"
    /\ j < num_segments
    /\ \E raw \in env.texts, t \in env.times, toks \in env.toks,
          embedding \in env.embs :
          LET t0 == seek + t[1]
              t1 == seek + t[2]
              text == TrimStart(raw)
              base_offset == speech_segments[i + 1].start + options.offset
              approx_start == base_offset + CsToS(t0)
              approx_end == base_offset + CsToS(t1)
              word_timestamps == IF options.word_timestamps
                                 THEN GetWordTimestamps(toks) ELSE << >>
              b == SegBounds(approx_start, approx_end, word_timestamps,
                             base_offset)
              trimmed == TrimLast(segments, b.start)
          IN \E sp \in SpeakerOutcomes(diarize_options, speakers, embedding) :
                LET segment == [speaker_id |-> sp.speaker_id,
                                start |-> b.start, end |-> b.end,
                                text |-> text, words |-> b.words]
                IN /\ empty_segments' = CountEmpty(empty_segments, text)
                   /\ total_chars' = total_chars + Len(text)
                   /\ previous_text' = NextPreviousText(text)
                   /\ speakers' = sp.speakers
                   /\ events' = events \o
                          Notifications(callbacks, segment, i,
                                        Len(speech_segments), j, Len(trimmed))
                   /\ segments' = PushSegment(trimmed, segment)
                   /\ seek' = t1
                   /\ hyps' = Append(hyps, [chunk |-> i, text |-> raw,
                                            t0 |-> t0, t1 |-> t1,
                                            tokens |-> toks,
                                            embedding |-> embedding])
    /\ j' = j + 1
    /\ pc' = IF j + 1 = num_segments THEN "chunk" ELSE "seg"
    /\ i' = IF j + 1 = num_segments THEN i + 1 ELSE i
    /\ UNCHANGED <<reconstructor_vars, formatter_vars, concurrent_vars,
                   download_vars,
                   speech_segments, options, diarize_options, callbacks, env,
                   num_segments, prompt, abort, result, decodes>>

\* Lines 510-521: every chunk is done, the list is returned.
Finish ==
    /\ pc = "chunk"
    /\ i = Len(speech_segments)
    /\ pc' = "done"
    /\ result' = "Ok"
    /\ UNCHANGED <<reconstructor_vars, formatter_vars, concurrent_vars,
                   download_vars,
                   speech_segments, options, diarize_options, callbacks, env,
                   i, num_segments, j, seek, prompt, previous_text, segments,
                   speakers, empty_segments, total_chars, abort, events,
                   decodes, hyps>>

\* The caller's cancellation predicate (Callbacks::is_cancelled), when one
\* is registered, starts to answer true.
RequestCancel ==
    /\ callbacks.is_cancelled
    /\ pc \in {"chunk", "seg"}
    /\ abort = FALSE
    /\ abort' = TRUE
    /\ UNCHANGED <<reconstructor_vars, formatter_vars, concurrent_vars,
                   download_vars,
                   speech_segments, options, diarize_options, callbacks, env,
                   pc, i, num_segments, j, seek, prompt, previous_text,
                   segments, speakers, empty_segments, total_chars, result,
                   events, decodes, hyps>>

Next ==
    \/ TranscribeChunk
    \/ TranscribeChunkFails
    \/ ProcessSegment
    \/ Finish
    \/ RequestCancel

Spec == Init /\ [][Next]_vars

\* Runs without word lists, so that every bound comes from the decoder's
\* hypothesis times, the hypotheses of one chunk being in time order.
SpecTimed == InitWith({TimeProfile}) /\ [][Next]_vars

\* Runs in which the caller's offset varies.
SpecOffset == InitWith({OffsetProfile}) /\ [][Next]_vars

(***************************************************************************)
(* process_segments, step by step.                                         *)
(***************************************************************************)
\* Word lists in chronological order: each word starts `gap` after the end
\* of the one before it (the first one `gap` after 0) and lasts `dur`.
RECURSIVE WordLists(_, _, _, _)
WordLists(texts, durs, gaps, n) ==
    IF n = 0 THEN {<< >>}
    ELSE {Append(ws, [word |-> x,
                      start |-> (IF ws = << >> THEN 0 ELSE Last(ws).end) + g,
                      end |-> (IF ws = << >> THEN 0 ELSE Last(ws).end) + g + d,
                      probability |-> None]) :
             ws \in WordLists(texts, durs, gaps, n - 1),
             x \in texts, d \in durs, g \in gaps}
WordListsUpTo(texts, durs, gaps) ==
    UNION {WordLists(texts, durs, gaps, n) : n \in 0..MaxWords}

\* A segment as run_transcription_pipeline makes it, from its word list.
SegmentOf(ws) ==
    [speaker_id |-> None,
     start |-> IF ws = << >> THEN 0 ELSE ws[1].start,
     end |-> IF ws = << >> THEN 0 ELSE Last(ws).end,
     text |-> << >>, words |-> Some(ws)]
\* A segment without word list.
TextSegment(text, start, end) ==
    [speaker_id |-> Some("1"), start |-> start, end |-> end, text |-> text,
     words |-> None]

\* tests::basic_split, lines 443-450.  In f64 0.60 - 0.50 is below 0.10,
\* the other durations are not: the second list has 0.60 a little early.
BasicSplitWords(sixty) ==
    <<[word |-> <<"I">>, start |-> 0, end |-> 100 * Ms, probability |-> None],
      [word |-> <<"t","h","i","n","k">>, start |-> 100 * Ms,
       end |-> 380 * Ms, probability |-> None],
      [word |-> <<"I">>, start |-> 500 * Ms, end |-> sixty,
       probability |-> None],
      [word |-> <<"w","o","u","l","d">>, start |-> sixty, end |-> 800 * Ms,
       probability |-> None],
      [word |-> <<"l","i","k","e">>, start |-> 800 * Ms, end |-> 950 * Ms,
       probability |-> None],
      [word |-> <<"t","o",".">>, start |-> 950 * Ms, end |-> 1100 * Ms,
       probability |-> None]>>
BasicSplitInputs ==
    {<<SegmentOf(BasicSplitWords(600 * Ms))>>,
     <<SegmentOf(BasicSplitWords(600 * Ms - 8))>>}

\* The calls explored: [inputs, cfgs, oracles].
ClampCalls ==
    [inputs |-> {<<SegmentOf(ws)>> :
                    ws \in WordListsUpTo({<<"a">>}, {40 * Ms, 100 * Ms, 1000 * Ms},
                                         {0, 500 * Ms, 600 * Ms})},
     cfgs |-> {Default},
     oracles |-> {NoSilence, VadMaskOracle(<< >>),
                  VadMaskOracle(<< <<0, 1000 * Ms>> >>)}]
CueCalls ==
    [inputs |-> {<<SegmentOf(ws)>> :
                    ws \in WordListsUpTo({<<"a">>, <<"a", "b">>},
                                         {100 * Ms, 6000 * Ms}, {0})},
     cfgs |-> {[Default EXCEPT !.max_lines = n] : n \in {0, 1, 2}},
     oracles |-> {NoSilence}]
LineCalls ==
    [inputs |-> {<<SegmentOf(ws)>> :
                    ws \in WordListsUpTo({<<"a">>, <<"t", "o">>, <<"b", ".">>,
                                          <<"c", ",">>},
                                         {100 * Ms}, {0})},
     cfgs |-> {[Default EXCEPT !.max_lines = 2, !.max_chars_per_line = m,
                               !.comma_min_chars_before_allow = c,
                               !.soft_max_words_per_line = w] :
                  m \in {38, 3}, c \in {55, 0}, w \in {0, 1}},
     oracles |-> {NoSilence}]
ScenarioCalls ==
    [inputs |-> BasicSplitInputs
                \cup {<< >>,
                      <<TextSegment(<<" ">>, 0, 1000 * Ms)>>,
                      <<TextSegment(<<"a", " ", "b", ".">>, 0, 1000 * Ms),
                        SegmentOf(<<[word |-> <<"a">>, start |-> 1000 * Ms,
                                     end |-> 1100 * Ms,
                                     probability |-> None]>>)>>},
     cfgs |-> {Default, [Default EXCEPT !.max_lines = 2]},
     oracles |-> {NoSilence}]
\* Words that end a sentence with one mark, with two marks and with an
\* ellipsis character.
PunctCalls ==
    [inputs |-> {<<SegmentOf(ws)>> :
                    ws \in WordListsUpTo({<<"a">>, <<"a", ".">>,
                                          <<"a", "?", "!">>, <<"a", Ellipsis>>},
                                         {100 * Ms}, {0})},
     cfgs |-> {Default},
     oracles |-> {NoSilence}]
\* Short and long words of two different texts, one ending a sentence.
MergeCalls ==
    [inputs |-> {<<SegmentOf(ws)>> :
                    ws \in WordListsUpTo({<<"a">>, <<"b", ".">>},
                                         {20 * Ms, 100 * Ms}, {0})},
     cfgs |-> {Default},
     oracles |-> {NoSilence}]
FormatterCalls ==
    {ClampCalls, CueCalls, LineCalls, ScenarioCalls, PunctCalls, MergeCalls}

InitFormatter ==
    /\ PipelineIdle
    /\ ReconstructorIdle
    /\ ConcurrentIdle
    /\ DownloadIdle
    /\ \E c \in FormatterCalls :
          /\ in_segments \in c.inputs
          /\ post_cfg \in c.cfgs
          /\ silence \in c.oracles
    /\ stage = "start"
    /\ fmt_toks = << >>
    /\ tok_groups = << >>
    /\ g_idx = 0
    /\ t_idx = 0
    /\ out_cues = << >>
    /\ cue_group = << >>

\* Lines 114-148: the words are collected and normalized; without words
\* the empty list is returned.
Collect ==
    /\ stage = "start"
    /\ LET all == Flatten(in_segments)
       IN IF all = << >>
          THEN stage' = "done" /\ fmt_toks' = fmt_toks
          ELSE stage' = "normalized" /\ fmt_toks' = Normalize(all)
    /\ UNCHANGED <<pipeline_vars, reconstructor_vars, concurrent_vars,
                   download_vars, in_segments, post_cfg,
                   silence, tok_groups, g_idx, t_idx, out_cues, cue_group>>

\* Lines 151, 194-225: the first pass of clamp_and_merge_tiny_words.
ClampPass ==
    /\ stage = "normalized"
    /\ fmt_toks' = ClampFrom(fmt_toks, 1, post_cfg, silence)
    /\ stage' = "clamped"
    /\ UNCHANGED <<pipeline_vars, reconstructor_vars, concurrent_vars,
                   download_vars, in_segments, post_cfg,
                   silence, tok_groups, g_idx, t_idx, out_cues, cue_group>>

\* Lines 227-255: its second pass.
MergePass ==
    /\ stage = "clamped"
    /\ fmt_toks' = MergeFrom(fmt_toks, 1, << >>, post_cfg)
    /\ stage' = "merged"
    /\ UNCHANGED <<pipeline_vars, reconstructor_vars, concurrent_vars,
                   download_vars, in_segments, post_cfg,
                   silence, tok_groups, g_idx, t_idx, out_cues, cue_group>>

\* Line 154.
SplitIntoGroups ==
    /\ stage = "merged"
    /\ tok_groups' = split_into_groups(fmt_toks, post_cfg)
    /\ g_idx' = 1
    /\ t_idx' = 0
    /\ stage' = "cueing"
    /\ UNCHANGED <<pipeline_vars, reconstructor_vars, concurrent_vars,
                   download_vars, in_segments, post_cfg,
                   silence, fmt_toks, out_cues, cue_group>>

\* Lines 158-165: one pass of the cueing loop.
BuildCue ==
    /\ stage = "cueing"
    /\ g_idx <= Len(tok_groups)
    /\ LET bc == build_cue(tok_groups[g_idx], t_idx, post_cfg)
       IN /\ out_cues' = Append(out_cues, bc.cue)
          /\ cue_group' = Append(cue_group, g_idx)
          /\ IF bc.j < Len(tok_groups[g_idx])
             THEN g_idx' = g_idx /\ t_idx' = bc.j
             ELSE g_idx' = g_idx + 1 /\ t_idx' = 0
    /\ UNCHANGED <<pipeline_vars, reconstructor_vars, concurrent_vars,
                   download_vars, in_segments, post_cfg,
                   silence, stage, fmt_toks, tok_groups>>

\* Line 168.
ReturnCues ==
    /\ stage = "cueing"
    /\ g_idx > Len(tok_groups)
    /\ stage' = "done"
    /\ UNCHANGED <<pipeline_vars, reconstructor_vars, concurrent_vars,
                   download_vars, in_segments, post_cfg,
                   silence, fmt_toks, tok_groups, g_idx, t_idx, out_cues,
                   cue_group>>

NextFormatter ==
    \/ Collect
    \/ ClampPass
    \/ MergePass
    \/ SplitIntoGroups
    \/ BuildCue
    \/ ReturnCues

SpecFormatter == InitFormatter /\ [][NextFormatter]_vars

\* Word lists whose words need not be in chronological order: every word
\* starts at one of `starts` and lasts one of `durs`, so a word may begin
\* inside or before the word listed ahead of it.
RECURSIVE AnyWordLists(_, _, _, _)
AnyWordLists(texts, starts, durs, n) ==
    IF n = 0 THEN {<< >>}
    ELSE {Append(ws, [word |-> x, start |-> s, end |-> s + d,
                      probability |-> None]) :
             ws \in AnyWordLists(texts, starts, durs, n - 1),
             x \in texts, s \in starts, d \in durs}
OverlapCalls ==
    [inputs |-> {<<SegmentOf(ws)>> :
                    ws \in UNION {AnyWordLists({<<"a", ".">>},
                                               {0, 200 * Ms},
                                               {100 * Ms, 1000 * Ms}, n) :
                                     n \in 0..MaxWords}},
     cfgs |-> {Default},
     oracles |-> {NoSilence, VadMaskOracle(<< <<0, 1000 * Ms>> >>)}]

\* process_segments called with words that overlap.
InitFormatterOverlap ==
    /\ PipelineIdle
    /\ ReconstructorIdle
    /\ ConcurrentIdle
    /\ DownloadIdle
    /\ in_segments \in OverlapCalls.inputs
    /\ post_cfg \in OverlapCalls.cfgs
    /\ silence \in OverlapCalls.oracles
    /\ stage = "start"
    /\ fmt_toks = << >>
    /\ tok_groups = << >>
    /\ g_idx = 0
    /\ t_idx = 0
    /\ out_cues = << >>
    /\ cue_group = << >>

SpecFormatterOverlap == InitFormatterOverlap /\ [][NextFormatter]_vars

\* The same calls, entered from the state in which nothing is called yet.
\* process_segments is one synchronous function (lines 114-168): once
\* entered, it runs on until it returns.
InitFormatterCall ==
    /\ PipelineIdle
    /\ ReconstructorIdle
    /\ ConcurrentIdle
    /\ DownloadIdle
    /\ FormatterIdle

CallProcessSegments ==
    /\ stage = "idle"
    /\ \E c \in FormatterCalls :
          /\ in_segments' \in c.inputs
          /\ post_cfg' \in c.cfgs
          /\ silence' \in c.oracles
    /\ stage' = "start"
    /\ UNCHANGED <<pipeline_vars, reconstructor_vars, concurrent_vars,
                   download_vars, fmt_toks, tok_groups, g_idx, t_idx,
                   out_cues, cue_group>>

NextFormatterCall ==
    \/ CallProcessSegments
    \/ NextFormatter

\* Weak fairness of every step of the call.  ClampPass and BuildCue change
\* vars whenever their guards hold, so ENABLED <<ClampPass>>_vars and
\* ENABLED <<BuildCue>>_vars are these guards; their weak fairness is
\* written with the guard in the place of ENABLED.
ClampPassEnabled == stage = "normalized"
BuildCueEnabled == stage = "cueing" /\ g_idx <= Len(tok_groups)
FairFormatter ==
    /\ WF_vars(Collect)
    /\ ([]<>~ClampPassEnabled \/ []<><<ClampPass>>_vars)
    /\ WF_vars(MergePass)
    /\ WF_vars(SplitIntoGroups)
    /\ ([]<>~BuildCueEnabled \/ []<><<BuildCue>>_vars)
    /\ WF_vars(ReturnCues)

SpecFormatterFair ==
    InitFormatterCall /\ [][NextFormatterCall]_vars /\ FairFormatter

(***************************************************************************)
(* get_word_timestamps called on the tokens of one hypothesis.             *)
(***************************************************************************)
\* Token texts: a bare piece, a piece with a leading space, a space alone,
\* a piece with a leading newline, a whole control token.
TokenTexts ==
    {<<"a">>, <<" ", "a">>, <<" ">>, <<"\n", "b">>, <<"[", "_", "B", "]">>}
TokenTimes == {<<0, 1>>, <<1, 3>>}
RawTokens ==
    {[text |-> x, p |-> 50, t0 |-> t[1], t1 |-> t[2], t_dtw |-> a] :
        x \in TokenTexts, t \in TokenTimes, a \in {-1, 2}}
TokenLists == UNION {[1..n -> RawTokens] : n \in 0..MaxToks}

InitReconstructor ==
    /\ PipelineIdle
    /\ FormatterIdle
    /\ ConcurrentIdle
    /\ DownloadIdle
    /\ seg_tokens \in TokenLists
    /\ wt_words = None

\* Lines 205-312: the call and its return value.
CallGetWordTimestamps ==
    /\ wt_words = None
    /\ wt_words' = Some(GetWordTimestamps(seg_tokens))
    /\ UNCHANGED <<pipeline_vars, formatter_vars, concurrent_vars,
                   download_vars, seg_tokens>>

NextReconstructor == CallGetWordTimestamps

SpecReconstructor == InitReconstructor /\ [][NextReconstructor]_vars

(***************************************************************************)
(* Two run_transcription_pipeline calls at once.  What a call shares with  *)
(* another one is the static PROGRESS_CALLBACK (transcribe.rs, lines       *)
(* 10-11); the static SHOULD_CANCEL (lines 14-15) is neither read nor      *)
(* written by the function.  The texts and times of the hypotheses are     *)
(* left out here: a segment is named by its call, chunk and hypothesis.    *)
(***************************************************************************)
CallIds == {1, 2}
Other(c) == 3 - c
\* Len(speech_segments) of a call.
CallChunks == {1, 2}
\* The hypotheses the decoder gives for one chunk.
CallHyps == {0, 1}
CallInputs ==
    [n_chunks : CallChunks,
     cbs : [progress : {TRUE}, new_segment : {TRUE}, is_cancelled : BOOLEAN]]

\* A variant of InstallProgressBridge that stores the call's own sink in the
\* static.
InstallProgressBridgeGlobal(slot, c) == Some(c)

\* Lines 344-349: the bridge closure is stored in the call's own params; the
\* static is not written.
InstallProgressBridge(slot, c) == slot

\* Line 519.
ClearProgressBridge(slot) == None

\* Lines 345-349, the bridge closure called by the decoder with a
\* percentage: the sink found in the static, if there is one, is called.
BridgeCall(slot, c, progress) ==
    IF IsSome(slot)
    THEN <<[kind |-> "bridge", percent |-> progress, to |-> Unwrap(slot),
            from |-> c]>>
    ELSE << >>

\* The observer calls in evs that go to call c.
DeliveredTo(evs, c) == SelectSeq(evs, LAMBDA e : e.to = c)

InitConcurrent ==
    /\ PipelineIdle
    /\ ReconstructorIdle
    /\ FormatterIdle
    /\ DownloadIdle
    /\ PROGRESS_CALLBACK = None
    /\ \E args \in [CallIds -> CallInputs] :
          calls = [c \in CallIds |->
                      [n_chunks |-> args[c].n_chunks, cbs |-> args[c].cbs,
                       pc |-> "new", i |-> 0, num_segments |-> 0, j |-> 0,
                       n_pushed |-> 0, abort |-> FALSE, events |-> << >>,
                       reads |-> << >>]]

\* Lines 326-359: the call up to the chunk loop.
StartCall(c) ==
    /\ calls[c].pc = "new"
    /\ PROGRESS_CALLBACK' = InstallProgressBridge(PROGRESS_CALLBACK, c)
    /\ calls' = [calls EXCEPT ![c].pc = "chunk"]
    /\ UNCHANGED <<pipeline_vars, reconstructor_vars, formatter_vars,
                   download_vars>>

\* Lines 361-376, decode succeeds.  While it runs the decoder polls the
\* call's abort predicate and may report its progress to the bridge.
DecodeChunkOf(c) ==
    /\ calls[c].pc = "chunk"
    /\ calls[c].i < calls[c].n_chunks
    /\ \E n \in CallHyps, reported \in BOOLEAN :
          LET me == calls[c]
              bridged == IF reported
                         THEN BridgeCall(PROGRESS_CALLBACK, c, 50) ELSE << >>
              read == [chunk |-> me.i, abort |-> me.abort,
                       reported |-> reported,
                       slot |-> IF reported THEN PROGRESS_CALLBACK ELSE None,
                       returned |-> {o \in CallIds : calls[o].pc = "done"}]
          IN calls' =
               [o \in CallIds |->
                   IF o = c
                   THEN [me EXCEPT
                           !.num_segments = n,
                           !.pc = IF n > 0 THEN "seg" ELSE "chunk",
                           !.i = IF n > 0 THEN @ ELSE @ + 1,
                           !.j = 0,
                           !.reads = Append(@, read),
                           !.events = @ \o DeliveredTo(bridged, c)]
                   ELSE [calls[o] EXCEPT
                           !.events = @ \o DeliveredTo(bridged, o)]]
    /\ UNCHANGED <<pipeline_vars, reconstructor_vars, formatter_vars,
                   download_vars, PROGRESS_CALLBACK>>

\* Line 374, decode fails: `?` returns the error at once, line 519 is not
\* reached.
DecodeFailsOf(c) ==
    /\ calls[c].pc = "chunk"
    /\ calls[c].i < calls[c].n_chunks
    /\ calls' = [calls EXCEPT ![c].pc = "failed"]
    /\ UNCHANGED <<pipeline_vars, reconstructor_vars, formatter_vars,
                   download_vars, PROGRESS_CALLBACK>>

\* Lines 382-509: one pass of the hypothesis loop; the observers are the
\* call's own arguments.
ProcessSegmentOf(c) ==
    /\ calls[c].pc = "seg"
    /\ calls[c].j < calls[c].num_segments
    /\ LET me == calls[c]
           segment == [call |-> c, chunk |-> me.i, hyp |-> me.j]
           told == Notifications(me.cbs, segment, me.i, me.n_chunks, me.j,
                                 me.n_pushed)
           last == me.j + 1 = me.num_segments
       IN calls' = [calls EXCEPT
                      ![c].events = @ \o [k \in 1..Len(told) |->
                                            [kind |-> told[k].kind,
                                             chunk |-> told[k].chunk,
                                             hyp |-> told[k].hyp,
                                             len |-> told[k].len,
                                             to |-> c, from |-> c]],
                      ![c].n_pushed = @ + 1,
                      ![c].j = @ + 1,
                      ![c].pc = IF last THEN "chunk" ELSE "seg",
                      ![c].i = IF last THEN @ + 1 ELSE @]
    /\ UNCHANGED <<pipeline_vars, reconstructor_vars, formatter_vars,
                   download_vars, PROGRESS_CALLBACK>>

\* Lines 510-521: the static is cleared, the list is returned.
FinishCall(c) ==
    /\ calls[c].pc = "chunk"
    /\ calls[c].i = calls[c].n_chunks
    /\ PROGRESS_CALLBACK' = ClearProgressBridge(PROGRESS_CALLBACK)
    /\ calls' = [calls EXCEPT ![c].pc = "done"]
    /\ UNCHANGED <<pipeline_vars, reconstructor_vars, formatter_vars,
                   download_vars>>

\* The call's own cancellation predicate starts to answer true.
RequestCancelOf(c) ==
    /\ calls[c].cbs.is_cancelled
    /\ calls[c].pc \in {"chunk", "seg"}
    /\ ~calls[c].abort
    /\ calls' = [calls EXCEPT ![c].abort = TRUE]
    /\ UNCHANGED <<pipeline_vars, reconstructor_vars, formatter_vars,
                   download_vars, PROGRESS_CALLBACK>>

StepOfCall(c) ==
    \/ StartCall(c)
    \/ DecodeChunkOf(c)
    \/ DecodeFailsOf(c)
    \/ ProcessSegmentOf(c)
    \/ FinishCall(c)

NextConcurrent ==
    \/ \E c \in CallIds : StartCall(c)
    \/ \E c \in CallIds : DecodeChunkOf(c)
    \/ \E c \in CallIds : DecodeFailsOf(c)
    \/ \E c \in CallIds : ProcessSegmentOf(c)
    \/ \E c \in CallIds : FinishCall(c)
    \/ \E c \in CallIds : RequestCancelOf(c)

SpecConcurrent == InitConcurrent /\ [][NextConcurrent]_vars

(***************************************************************************)
(* ModelManager::ensure_hub_model (src/src/model_manager.rs), two calls at *)
(* once.  A cancellation token is named after the call that made it.  The  *)
(* file to fetch has FileUnits units and the hub client reports one unit   *)
(* per update (`fetched` counts them); percentages are offset + current / total * scale with       *)
(* offset 0 and scale 100.                                                 *)
(***************************************************************************)
DownloadIds == {1, 2}
FileUnits == 2
\* The arguments of a call: is a progress callback given (Some), is a
\* cancellation predicate given, and is there a valid cached file?
DownloadInputs ==
    {[progress |-> TRUE, is_cancelled |-> FALSE, cached |-> FALSE],
     [progress |-> TRUE, is_cancelled |-> TRUE, cached |-> FALSE],
     [progress |-> FALSE, is_cancelled |-> FALSE, cached |-> FALSE],
     [progress |-> TRUE, is_cancelled |-> FALSE, cached |-> TRUE]}

\* DownloadProgress::new, lines 34-56: the generation is read here.
NewDownloadProgress(d, generation) ==
    Some([generation |-> generation, cancel_token |-> d, current |-> 0,
          total |-> 0])

\* DownloadProgress::should_stop, lines 58-78.
should_stop(dl, prog, tokens_cancelled, generation) ==
    \/ dl.is_cancelled /\ dl.user_cancel
    \/ prog.cancel_token \in tokens_cancelled
    \/ prog.generation # generation

\* Is call d superseded: has a call that installed its token after d's also
\* advanced the generation?
Superseded(d, order, dls) ==
    \E k, n \in 1..Len(order) :
        /\ order[k] = d
        /\ k < n
        /\ dls[order[n]].pc \notin {"new", "setup"}

\* DownloadProgress::emit, lines 80-94: the callbacks made (none or one).
emit(d, dl, prog, tokens_cancelled, generation, order, dls) ==
    IF should_stop(dl, prog, tokens_cancelled, generation) THEN << >>
    ELSE IF dl.progress
    THEN <<[call |-> d, kind |-> "progress",
            pct |-> IF prog.total = 0 THEN 0
                    ELSE (prog.current * 100) \div prog.total,
            stale |-> Superseded(d, order, dls)]>>
    ELSE << >>

\* Lines 580 and 584: the completion callback.
completion(d, dl, order, dls) ==
    IF dl.progress
    THEN <<[call |-> d, kind |-> "completion", pct |-> 100,
            stale |-> Superseded(d, order, dls)]>>
    ELSE << >>

InitDownloads ==
    /\ PipelineIdle
    /\ ReconstructorIdle
    /\ FormatterIdle
    /\ ConcurrentIdle
    /\ ACTIVE_DOWNLOAD = None
    /\ DOWNLOAD_GENERATION = 0
    /\ cancelled = {}
    /\ setups = << >>
    /\ deliveries = << >>
    /\ \E args \in [DownloadIds -> DownloadInputs] :
          downloads = [d \in DownloadIds |->
                          [progress |-> args[d].progress,
                           is_cancelled |-> args[d].is_cancelled,
                           cached |-> args[d].cached,
                           user_cancel |-> FALSE, pc |-> "new",
                           prog |-> None, fetched |-> 0,
                           retried |-> FALSE]]

\* setup_new_download, lines 468-483, under the lock of ACTIVE_DOWNLOAD.
SetupNewDownload(d) ==
    /\ downloads[d].pc = "new"
    /\ cancelled' = cancelled \cup Range(ACTIVE_DOWNLOAD)
    /\ ACTIVE_DOWNLOAD' = Some(d)
    /\ setups' = Append(setups, d)
    /\ downloads' = [downloads EXCEPT ![d].pc = "setup"]
    /\ UNCHANGED <<pipeline_vars, reconstructor_vars, formatter_vars,
                   concurrent_vars, DOWNLOAD_GENERATION, deliveries>>

\* Line 505.
AdvanceGeneration(d) ==
    /\ downloads[d].pc = "setup"
    /\ DOWNLOAD_GENERATION' = DOWNLOAD_GENERATION + 1
    /\ downloads' = [downloads EXCEPT ![d].pc = "advanced"]
    /\ UNCHANGED <<pipeline_vars, reconstructor_vars, formatter_vars,
                   concurrent_vars, ACTIVE_DOWNLOAD, cancelled, setups,
                   deliveries>>

\* Lines 507-529: the early cancellation check, then the fast path of a
\* valid cached file, which returns without any progress callback.
EarlyCheck(d) ==
    /\ downloads[d].pc = "advanced"
    /\ LET dl == downloads[d]
       IN IF dl.is_cancelled /\ dl.user_cancel
          THEN /\ cancelled' = cancelled \cup {d}
               /\ downloads' = [downloads EXCEPT ![d].pc = "failed"]
          ELSE /\ cancelled' = cancelled
               /\ downloads' = [downloads EXCEPT
                                   ![d].pc = IF dl.cached THEN "done"
                                             ELSE "starting"]
    /\ UNCHANGED <<pipeline_vars, reconstructor_vars, formatter_vars,
                   concurrent_vars, ACTIVE_DOWNLOAD, DOWNLOAD_GENERATION,
                   setups, deliveries>>

\* Lines 531-558: the second cancellation check, then the progress adapter
\* is made and handed to the hub client.
StartDownload(d) ==
    /\ downloads[d].pc = "starting"
    /\ LET dl == downloads[d]
       IN IF dl.is_cancelled /\ dl.user_cancel
          THEN downloads' = [downloads EXCEPT ![d].pc = "failed"]
          ELSE downloads' =
                 [downloads EXCEPT
                    ![d].pc = "init",
                    ![d].prog = NewDownloadProgress(d, DOWNLOAD_GENERATION)]
    /\ UNCHANGED <<pipeline_vars, reconstructor_vars, formatter_vars,
                   concurrent_vars, ACTIVE_DOWNLOAD, DOWNLOAD_GENERATION,
                   cancelled, setups, deliveries>>

\* HubProgress::init, lines 105-109, called by the hub client.
HubInit(d) ==
    /\ downloads[d].pc = "init"
    /\ LET dl == downloads[d]
           prog == [Unwrap(dl.prog) EXCEPT !.total = FileUnits,
                                           !.current = 0]
       IN /\ deliveries' = deliveries \o
                 emit(d, dl, prog, cancelled, DOWNLOAD_GENERATION, setups,
                      downloads)
          /\ downloads' = [downloads EXCEPT ![d].pc = "update",
                                            ![d].fetched = 0,
                                            ![d].prog = Some(prog)]
    /\ UNCHANGED <<pipeline_vars, reconstructor_vars, formatter_vars,
                   concurrent_vars, ACTIVE_DOWNLOAD, DOWNLOAD_GENERATION,
                   cancelled, setups>>

\* HubProgress::update, lines 111-122, called by the hub client for one
\* unit; handle_cancellation, lines 96-101, cancels the call's own token.
HubUpdate(d) ==
    /\ downloads[d].pc = "update"
    /\ downloads[d].fetched < FileUnits
    /\ LET dl == downloads[d]
           prog == [Unwrap(dl.prog) EXCEPT !.current = @ + 1]
       IN IF dl.is_cancelled /\ dl.user_cancel
          THEN /\ cancelled' = cancelled \cup {Unwrap(dl.prog).cancel_token}
               /\ deliveries' = deliveries
               /\ downloads' = [downloads EXCEPT ![d].fetched = @ + 1]
          ELSE /\ cancelled' = cancelled
               /\ deliveries' = deliveries \o
                     emit(d, dl, prog, cancelled, DOWNLOAD_GENERATION, setups,
                          downloads)
               /\ downloads' = [downloads EXCEPT ![d].fetched = @ + 1,
                                                 ![d].prog = Some(prog)]
    /\ UNCHANGED <<pipeline_vars, reconstructor_vars, formatter_vars,
                   concurrent_vars, ACTIVE_DOWNLOAD, DOWNLOAD_GENERATION,
                   setups>>

\* Lines 560-585: download_with_progress returns a path, the hub client
\* having fetched the file whatever the adapter did.  A valid file: the
\* completion callback is made and the path returned.  An invalid file the
\* first time: a second adapter is made and the file fetched again.  An
\* invalid file the second time: the error is returned.
DownloadReturns(d) ==
    /\ downloads[d].pc = "update"
    /\ downloads[d].fetched = FileUnits
    /\ \E valid \in BOOLEAN :
          LET dl == downloads[d]
          IN IF valid
             THEN /\ deliveries' = deliveries \o
                        completion(d, dl, setups, downloads)
                  /\ downloads' = [downloads EXCEPT ![d].pc = "done"]
             ELSE /\ deliveries' = deliveries
                  /\ downloads' =
                       IF dl.retried
                       THEN [downloads EXCEPT ![d].pc = "failed"]
                       ELSE [downloads EXCEPT
                               ![d].pc = "init",
                               ![d].retried = TRUE,
                               ![d].prog = NewDownloadProgress(
                                               d, DOWNLOAD_GENERATION)]
    /\ UNCHANGED <<pipeline_vars, reconstructor_vars, formatter_vars,
                   concurrent_vars, ACTIVE_DOWNLOAD, DOWNLOAD_GENERATION,
                   cancelled, setups>>

\* Lines 560-562 and 574-576: download_with_progress returns an error, and
\* `?` returns it.
DownloadFails(d) ==
    /\ downloads[d].pc \in {"init", "update"}
    /\ downloads' = [downloads EXCEPT ![d].pc = "failed"]
    /\ UNCHANGED <<pipeline_vars, reconstructor_vars, formatter_vars,
                   concurrent_vars, ACTIVE_DOWNLOAD, DOWNLOAD_GENERATION,
                   cancelled, setups, deliveries>>

\* The call's cancellation predicate starts to answer true.
UserCancels(d) ==
    /\ downloads[d].is_cancelled
    /\ ~downloads[d].user_cancel
    /\ downloads[d].pc \notin {"done", "failed"}
    /\ downloads' = [downloads EXCEPT ![d].user_cancel = TRUE]
    /\ UNCHANGED <<pipeline_vars, reconstructor_vars, formatter_vars,
                   concurrent_vars, ACTIVE_DOWNLOAD, DOWNLOAD_GENERATION,
                   cancelled, setups, deliveries>>

NextDownloads ==
    \/ \E d \in DownloadIds : SetupNewDownload(d)
    \/ \E d \in DownloadIds : AdvanceGeneration(d)
    \/ \E d \in DownloadIds : EarlyCheck(d)
    \/ \E d \in DownloadIds : StartDownload(d)
    \/ \E d \in DownloadIds : HubInit(d)
    \/ \E d \in DownloadIds : HubUpdate(d)
    \/ \E d \in DownloadIds : DownloadReturns(d)
    \/ \E d \in DownloadIds : DownloadFails(d)
    \/ \E d \in DownloadIds : UserCancels(d)

SpecDownloads == InitDownloads /\ [][NextDownloads]_vars

(***************************************************************************)
(* Properties.                                                             *)
(***************************************************************************)
SegmentEvents == SelectSeq(events, LAMBDA e : e.kind = "segment")
ProgressEvents == SelectSeq(events, LAMBDA e : e.kind = "progress")

\* C1: in the segment list, at every moment and so in every list returned,
\* each segment ends no later than the next one starts.
C1_NoOverlap ==
    \A k \in 1..(Len(segments) - 1) : segments[k].end <= segments[k + 1].start

\* A list was returned in which a segment's end was lowered, below the end
\* its observer saw, to the start of the segment after it.
C1_Witness ==
    /\ result = "Ok"
    /\ \E k \in 1..(Len(segments) - 1) :
          /\ segments[k].end = segments[k + 1].start
          /\ \E n \in 1..Len(events) :
                /\ events[n].kind = "segment"
                /\ events[n].len = k - 1
                /\ events[n].segment.end > segments[k].end

\* C2: for chunks in chronological order the returned list is sorted by start.
C2_SortedByStart ==
    result = "Ok" =>
        \A k \in 1..(Len(segments) - 1) :
            segments[k].start <= segments[k + 1].start

\* C3: cancellation is a successful partial result: once the cancellation
\* predicate answers true no further chunk is decoded, and the call returns
\* Ok with the segments committed so far, never an error.
C3_CancelReturnsPartial ==
    [][abort =>
          /\ decodes' = decodes
          /\ result' # "Err"
          /\ (result' = "Ok" => segments' = segments)]_vars

\* C4 as stated: the new-segment observer is called once per segment of the
\* list, in the list's order, each call after the segment has been appended.
C4_NotifiedAfterAppend ==
    callbacks.new_segment =>
        /\ Len(SegmentEvents) = Len(segments)
        /\ \A k \in 1..Len(SegmentEvents) :
              /\ SegmentEvents[k].segment.start = segments[k].start
              /\ SegmentEvents[k].segment.text = segments[k].text
              /\ SegmentEvents[k].segment.speaker_id = segments[k].speaker_id
              /\ SegmentEvents[k].len >= k

\* C4 as amended: the new-segment observer is called once per segment of the
\* list, in the list's order, none dropped, duplicated or reordered; each
\* call is made just before its segment is appended, when the list holds
\* exactly the segments before it.
C4_NotifiedInOrder ==
    callbacks.new_segment =>
        /\ Len(SegmentEvents) = Len(segments)
        /\ \A k \in 1..Len(SegmentEvents) :
              /\ SegmentEvents[k].segment.start = segments[k].start
              /\ SegmentEvents[k].segment.text = segments[k].text
              /\ SegmentEvents[k].segment.speaker_id = segments[k].speaker_id
              /\ SegmentEvents[k].len = k - 1

\* A returned list of three segments from two chunks, all three notified.
C4_Witness ==
    /\ result = "Ok"
    /\ callbacks.new_segment
    /\ Len(segments) = 3
    /\ Len(SegmentEvents) = 3
    /\ segments[1].text # segments[2].text
    /\ hyps[1].chunk # hyps[3].chunk

\* C5: progress is reported once per chunk, after all hypotheses of the
\* chunk have been processed, as (chunks completed / chunks total) * 100,
\* whatever the number of hypotheses of the chunk.
C5_ProgressPerChunk ==
    (result = "Ok" /\ callbacks.progress) =>
        /\ Len(ProgressEvents) = Len(speech_segments)
        /\ \A k \in 1..Len(ProgressEvents) :
              /\ ProgressEvents[k].chunk = k - 1
              /\ ProgressEvents[k].percent = (k * 100) \div Len(speech_segments)
              /\ ProgressEvents[k].hyp + 1 = decodes[k].n

\* C6: a decode failure for chunk k ends the call with an error: it is the
\* last decode (no retry, no later chunk), nothing happens afterwards, and
\* every notification made belongs to a chunk before k.
C6_DecodeFailureIsFatal ==
    \A n \in 1..Len(decodes) :
        ~decodes[n].ok =>
            /\ result = "Err"
            /\ pc = "failed"
            /\ n = Len(decodes)
            /\ \A m \in 1..Len(decodes) : decodes[m].chunk = m - 1
            /\ \A e \in Range(events) : e.chunk < decodes[n].chunk
            /\ Len(segments) = Len(SegmentEvents) \/ ~callbacks.new_segment
            /\ ~ENABLED Next

\* The decode of the second chunk failed after the first chunk's segments
\* had been notified.
C6_Witness ==
    /\ result = "Err"
    /\ Len(decodes) = 2
    /\ ~decodes[2].ok
    /\ Len(events) >= 2

\* C7: with diarization enabled, a hypothesis whose embedding extraction
\* fails is still emitted, labelled with the unknown-speaker sentinel; the
\* call does not fail for it (only a decode failure is an error) and the
\* loops go on.
C7_EmbeddingFailureIsLocal ==
    IsSome(diarize_options) =>
        /\ Len(segments) = Len(hyps)
        /\ \A k \in 1..Len(hyps) :
              hyps[k].embedding = None =>
                  segments[k].speaker_id = Some(Unknown)
        /\ (result = "Err" => ~Last(decodes).ok)
        /\ (pc = "seg" => ENABLED ProcessSegment)
        /\ (pc = "chunk" => ENABLED (TranscribeChunk \/ Finish))

\* A returned list in which a hypothesis without embedding is labelled "?"
\* and the hypothesis after it carries a registered speaker's label.
C7_Witness ==
    /\ result = "Ok"
    /\ IsSome(diarize_options)
    /\ \E k \in 1..(Len(hyps) - 1) :
          /\ hyps[k].embedding = None
          /\ segments[k].speaker_id = Some(Unknown)
          /\ IsSome(hyps[k + 1].embedding)
          /\ segments[k + 1].speaker_id # Some(Unknown)

RECURSIVE HypothesesDecoded(_)
HypothesesDecoded(ds) ==
    IF ds = << >> THEN 0 ELSE Head(ds).n + HypothesesDecoded(Tail(ds))

EmptyHyps == {k \in 1..Len(hyps) : Trim(hyps[k].text) = << >>}

\* C8: a hypothesis whose text is empty or only whitespace is emitted as a
\* segment with empty text and counted once in empty_segments; it raises no
\* error, and the returned list has one segment per hypothesis decoded.
C8_EmptyHypothesesEmitted ==
    /\ Len(segments) = Len(hyps)
    /\ \A k \in EmptyHyps : segments[k].text = << >>
    /\ empty_segments = Cardinality(EmptyHyps)
    /\ (result = "Ok" => Len(segments) = HypothesesDecoded(decodes))
    /\ (result = "Err" => ~Last(decodes).ok)

\* A returned list of three segments, two of them from a whitespace-only and
\* an empty hypothesis.
C8_Witness ==
    /\ result = "Ok"
    /\ Len(segments) = 3
    /\ empty_segments = 2
    /\ \E k \in EmptyHyps : hyps[k].text = <<" ">>
    /\ \E k \in EmptyHyps : hyps[k].text = << >>

RegisteredLabels(sp) == {IdToString(id) : id \in 1..Len(sp)}
OutputLabels == {Unwrap(segments[k].speaker_id) : k \in 1..Len(segments)}

C9_Bound ==
    IsSome(diarize_options) =>
        /\ Len(speakers) <= Unwrap(diarize_options).max_speakers
        /\ OutputLabels \subseteq RegisteredLabels(speakers) \cup {Unknown}
        /\ Cardinality(OutputLabels \ {Unknown})
              <= Unwrap(diarize_options).max_speakers

C9_Step ==
    (/\ IsSome(diarize_options)
     /\ Len(hyps') = Len(hyps) + 1
     /\ IsSome(Last(hyps').embedding)) =>
        LET d == Unwrap(diarize_options)
            e == Unwrap(Last(hyps').embedding)
            label == Last(segments').speaker_id
        IN IF Len(speakers) = d.max_speakers
           THEN /\ speakers' = speakers
                /\ \E id \in Nearest(speakers, 1..Len(speakers), e) :
                      label = Some(IdToString(id))
           ELSE \/ /\ speakers' = speakers
                   /\ \E id \in 1..Len(speakers) :
                         /\ Similarity(e, speakers[id]) > d.threshold
                         /\ label = Some(IdToString(id))
                \/ /\ \A id \in 1..Len(speakers) :
                         Similarity(e, speakers[id]) <= d.threshold
                   /\ speakers' = Append(speakers, e)
                   /\ label = Some(IdToString(Len(speakers) + 1))

\* C9: once the registry holds max_speakers entries, a hypothesis with an
\* embedding gets the label of the nearest registered speaker, whatever the
\* threshold, and the registry does not grow; below max_speakers the
\* threshold decides between a registered label and a new one.  So the
\* registered labels in the output never number more than max_speakers.
C9_RegistryCapped == []C9_Bound /\ [][C9_Step]_vars

\* With max_speakers = 1 and the registry full, an embedding unlike the
\* registered one (similarity below the threshold) got label "1".
C9_Witness ==
    /\ result = "Ok"
    /\ IsSome(diarize_options)
    /\ Unwrap(diarize_options).max_speakers = 1
    /\ speakers = <<1>>
    /\ \E k \in 2..Len(hyps) :
          /\ hyps[k].embedding = Some(4)
          /\ Similarity(4, speakers[1]) < Unwrap(diarize_options).threshold
          /\ segments[k].speaker_id = Some("1")

LastNonEmptyOf(c) ==
    LET ks == {k \in 1..Len(hyps) :
                  hyps[k].chunk = c /\ Trim(hyps[k].text) # << >>}
    IN IF ks = {} THEN None
       ELSE Some(TrimStart(hyps[CHOOSE k \in ks : \A o \in ks : o <= k].text))

\* C10: the prompt of the decode of chunk i > 0 is the text of the last
\* non-empty hypothesis of chunk i - 1, and the first chunk is decoded with
\* no prompt taken from earlier output.
C10_HintFromPreviousChunk ==
    \A n \in 1..Len(decodes) :
        decodes[n].prompt =
            IF n = 1 THEN options.init_prompt
            ELSE LastNonEmptyOf(decodes[n].chunk - 1)

\* The offset of the chunk of hypothesis h: line 380.
BaseOffsetOf(h) == speech_segments[h.chunk + 1].start + options.offset

\* C11 as stated: for every hypothesis, the segment emitted for it starts
\* and ends at chunk.start + global offset + the hypothesis's local start
\* and end times.
C11_BoundsFromHypothesis ==
    [][Len(hyps') = Len(hyps) + 1 =>
          LET h == Last(hyps')
              s == Last(segments')
          IN /\ s.start = BaseOffsetOf(h) + CsToS(h.t0)
             /\ s.end = BaseOffsetOf(h) + CsToS(h.t1)]_vars

\* C11 as amended: a segment emitted without word list (word timestamps not
\* requested, or no word reconstructed) starts and ends at chunk.start +
\* global offset + the hypothesis's local start and end times; a segment
\* emitted with a word list starts at its first word's start and ends at its
\* last word's end, which are chunk.start + global offset + the coarse times
\* of the tokens, not of the hypothesis.
C11_BoundsFromWordsOrHypothesis ==
    [][Len(hyps') = Len(hyps) + 1 =>
          LET h == Last(hyps')
              s == Last(segments')
          IN /\ IsSome(s.words) <=> (options.word_timestamps /\ h.tokens # << >>)
             /\ ~IsSome(s.words) =>
                    /\ s.start = BaseOffsetOf(h) + CsToS(h.t0)
                    /\ s.end = BaseOffsetOf(h) + CsToS(h.t1)
             /\ IsSome(s.words) =>
                    /\ s.start = Unwrap(s.words)[1].start
                    /\ s.end = Last(Unwrap(s.words)).end
                    /\ s.start = BaseOffsetOf(h) + CsToS(h.tokens[1].t0)
                    /\ s.end = BaseOffsetOf(h) + CsToS(Last(h.tokens).t1)]_vars

\* With a caller's offset, the second chunk gave a segment with a word list
\* whose start is the word's and not the hypothesis's, and some segment
\* without word list was returned too.
C11_Witness ==
    /\ result = "Ok"
    /\ options.offset > 0
    /\ \E k \in 1..Len(segments) :
          /\ hyps[k].chunk = 1
          /\ IsSome(segments[k].words)
          /\ segments[k].start =
                 BaseOffsetOf(hyps[k]) + CsToS(hyps[k].tokens[1].t0)
          /\ segments[k].start # BaseOffsetOf(hyps[k]) + CsToS(hyps[k].t0)
    /\ \E k \in 1..Len(segments) :
          /\ ~IsSome(segments[k].words)
          /\ segments[k].start = BaseOffsetOf(hyps[k]) + CsToS(hyps[k].t0)

RECURSIVE FirstAlphabetic(_)
FirstAlphabetic(s) ==
    IF s = << >> THEN None
    ELSE IF Head(s) \in Lowercase \cup Uppercase THEN Some(Head(s))
    ELSE FirstAlphabetic(Tail(s))
Capitalized(s) ==
    IsSome(FirstAlphabetic(s)) => Unwrap(FirstAlphabetic(s)) \in Uppercase

\* C12: in the returned transcript the first alphabetic character of the
\* first segment's text, and of its first word when a word list is present,
\* is upper-case; every other segment's text is the hypothesis's text with
\* its capitalization untouched.
C12_FirstSegmentCapitalized ==
    (result = "Ok" /\ segments # << >>) =>
        /\ Capitalized(segments[1].text)
        /\ IsSome(segments[1].words) =>
               Capitalized(Unwrap(segments[1].words)[1].word)
        /\ \A k \in 2..Len(segments) :
               segments[k].text = TrimStart(hyps[k].text)

\* C13: invalid input, an empty chunk list or a chunk whose end is before
\* its start, is rejected with an error before any chunk is decoded and
\* before any notification: the call never returns a segment list for it.
C13_InvalidInputRejected ==
    (\/ speech_segments = << >>
     \/ \E k \in 1..Len(speech_segments) :
           speech_segments[k].end < speech_segments[k].start) =>
        /\ result # "Ok"
        /\ decodes = << >>
        /\ events = << >>

AnchorFree(ts) == \A k \in 1..Len(ts) : ts[k].t_dtw < 0
MarkerFree(ts) ==
    \A k \in 1..Len(ts) :
        /\ ~IsWholeControlToken(ts[k].text)
        /\ StripEmbeddedControlMarkers(ts[k].text) = ts[k].text
AllPrintable(ts) == \A k \in 1..Len(ts) : Trim(TrimNul(ts[k].text)) # << >>

\* The runs of a token list: a run starts at the first token and at every
\* token whose text begins with a space or a newline.
RunStarts(ts) ==
    {k \in 1..Len(ts) :
        k = 1 \/ (ts[k].text # << >> /\ Head(ts[k].text) \in {" ", "\n"})}
NthRunStart(ts, n) ==
    CHOOSE k \in RunStarts(ts) :
        Cardinality({x \in RunStarts(ts) : x < k}) = n - 1
RunEnd(ts, k) ==
    CHOOSE m \in k..Len(ts) :
        /\ \A x \in (k + 1)..m : x \notin RunStarts(ts)
        /\ (m = Len(ts) \/ (m + 1) \in RunStarts(ts))
RECURSIVE RunText(_, _, _)
RunText(ts, k, m) ==
    IF k > m THEN << >> ELSE ts[k].text \o RunText(ts, k + 1, m)

OneWordPerRun(ts, ws) ==
    /\ Len(ws) = Cardinality(RunStarts(ts))
    /\ \A n \in 1..Len(ws) :
          LET k == NthRunStart(ts, n)
              m == RunEnd(ts, k)
          IN /\ ws[n].start = CsToS(ts[k].t0)
             /\ ws[n].end = CsToS(ts[m].t1)
             /\ ws[n].word = Trim(RunText(ts, k, m))

\* C14 as stated: for a token list without alignment anchors and without
\* control markers, get_word_timestamps returns exactly one word per run of
\* tokens delimited by a leading-whitespace token, in order, each word
\* starting at the coarse start of its run's first token and ending at the
\* coarse end of its run's last token.
C14_OneWordPerRun ==
    (IsSome(wt_words) /\ AnchorFree(seg_tokens) /\ MarkerFree(seg_tokens)) =>
        OneWordPerRun(seg_tokens, Unwrap(wt_words))

\* C14 as amended: the same, for a token list in which, besides, every
\* token has printable text (none is empty or only whitespace).
C14_OneWordPerPrintableRun ==
    (/\ IsSome(wt_words)
     /\ AnchorFree(seg_tokens)
     /\ MarkerFree(seg_tokens)
     /\ AllPrintable(seg_tokens)) =>
        OneWordPerRun(seg_tokens, Unwrap(wt_words))

\* Three printable tokens without anchors or markers gave two words, one
\* of them made of two tokens and ending later than its first token.
C14_Witness ==
    /\ IsSome(wt_words)
    /\ AnchorFree(seg_tokens)
    /\ MarkerFree(seg_tokens)
    /\ AllPrintable(seg_tokens)
    /\ Len(seg_tokens) = 3
    /\ Len(Unwrap(wt_words)) = 2
    /\ \E n \in 1..2 :
          LET k == NthRunStart(seg_tokens, n)
          IN /\ RunEnd(seg_tokens, k) = k + 1
             /\ Unwrap(wt_words)[n].end # CsToS(seg_tokens[k].t1)

\* The words process_segments was handed, and its tokens after the first
\* pass of clamp_and_merge_tiny_words.
InputWords ==
    [k \in 1..Len(Flatten(in_segments)) |-> Flatten(in_segments)[k].w]
NormalizedToks == Normalize(Flatten(in_segments))
ClampedToks == ClampFrom(NormalizedToks, 1, post_cfg, silence)

\* The number of input words in a token's text: the merge joins words with
\* a space, and the words themselves hold none.
NoInnerSpace == \A k \in 1..Len(InputWords) : " " \notin Range(InputWords[k].word)
InputsIn(word) == 1 + Cardinality({k \in 1..Len(word) : word[k] = " "})
RECURSIVE InputsInWords(_)
InputsInWords(ws) ==
    IF ws = << >> THEN 0 ELSE InputsIn(Head(ws).word) + InputsInWords(Tail(ws))
RECURSIVE InputsUpTo(_)
InputsUpTo(c) ==
    IF c = 0 THEN 0 ELSE InputsUpTo(c - 1) + InputsInWords(out_cues[c].words)
\* The cue that holds input word n.
CueOfInput(n) ==
    CHOOSE c \in 1..Len(out_cues) : InputsUpTo(c - 1) < n /\ n <= InputsUpTo(c)

IsPrefix(a, b) == Len(a) <= Len(b) /\ SubSeq(b, 1, Len(a)) = a

\* C15: any two consecutive input words whose gap (next.start minus
\* previous.end) is at least split_gap_sec end up in different groups and so
\* in different cues, whatever their durations and whatever the silence
\* oracle answers.
C15_LongGapSeparates ==
    (stage = "done" /\ NoInnerSpace) =>
        \A n \in 1..(Len(InputWords) - 1) :
            InputWords[n + 1].start - InputWords[n].end >= post_cfg.split_gap_sec
                => CueOfInput(n) # CueOfInput(n + 1)

GroupCues(g) == {n \in 1..Len(cue_group) : cue_group[n] = g}
SmallQuietGroup(group, cfg) ==
    /\ slice_chars(group) < cfg.max_chars_per_line * cfg.max_lines
    /\ \A k \in 1..Len(group) : ~is_terminal_punct(group[k].punc)
    /\ \A k \in 1..(Len(group) - 1) :
          group[k + 1].start - group[k].end < cfg.split_gap_sec

\* C16 as stated: a group whose character count is below
\* max_chars_per_line * max_lines, without terminal punctuation and without
\* long pause, is turned into exactly one cue, for every combination of
\* token durations.
C16_SmallGroupOneCue ==
    stage = "done" =>
        \A g \in 1..Len(tok_groups) :
            SmallQuietGroup(tok_groups[g], post_cfg)
                => Cardinality(GroupCues(g)) = 1

\* C16 as amended: such a group is turned into exactly one cue when,
\* besides, the time from its first token's start to the end of each of its
\* tokens but the last is below max_sub_dur.
C16_SmallShortGroupOneCue ==
    stage = "done" =>
        \A g \in 1..Len(tok_groups) :
            (/\ SmallQuietGroup(tok_groups[g], post_cfg)
             /\ \A k \in 1..(Len(tok_groups[g]) - 1) :
                   Max(tok_groups[g][k].end - tok_groups[g][1].start, Ms)
                       < post_cfg.max_sub_dur)
                => Cardinality(GroupCues(g)) = 1

\* A small quiet group of three tokens, the first of them faster than
\* cps_cap, was returned as one cue.
C16_Witness ==
    /\ stage = "done"
    /\ \E g \in 1..Len(tok_groups) :
          LET group == tok_groups[g]
          IN /\ SmallQuietGroup(group, post_cfg)
             /\ Len(group) = 3
             /\ Last(group).end - group[1].start < post_cfg.max_sub_dur
             /\ slice_chars(<<group[1]>>) * 1000 * Ms
                    > post_cfg.cps_cap * (group[1].end - group[1].start)
             /\ Cardinality(GroupCues(g)) = 1

\* The tokens the second pass merges into the token after them: the ones
\* still short that have a successor and were not the target of the merge
\* of the token before them.
RECURSIVE IsMergeSource(_, _, _)
IsMergeSource(toks, k, cfg) ==
    /\ toks[k].end - toks[k].start < cfg.min_word_dur
    /\ k < Len(toks)
    /\ (k = 1 \/ ~IsMergeSource(toks, k - 1, cfg))
MergeSources(toks, cfg) == {k \in 1..Len(toks) : IsMergeSource(toks, k, cfg)}

RECURSIVE JoinSpace(_)
JoinSpace(strs) ==
    IF strs = << >> THEN << >>
    ELSE IF Len(strs) = 1 THEN strs[1]
    ELSE strs[1] \o <<" ">> \o JoinSpace(Tail(strs))
CueWordTexts(cue) == [k \in 1..Len(cue.words) |-> cue.words[k].word]

\* C18: for every cue returned, joining cue.lines with a single space gives
\* exactly the cue's words, each with its punctuation suffix, joined by
\* single spaces: line splitting loses, adds and reorders nothing.
C18_LinesRejoinToWords ==
    \A n \in 1..Len(out_cues) :
        JoinSpace(out_cues[n].lines) = JoinSpace(CueWordTexts(out_cues[n]))

\* A cue of three words, one with a punctuation suffix, was returned on
\* two lines.
C18_Witness ==
    /\ stage = "done"
    /\ \E n \in 1..Len(out_cues) :
          /\ Len(out_cues[n].lines) = 2
          /\ Len(out_cues[n].words) = 3
          /\ \E k \in 1..3 : Last(out_cues[n].words[k].word) \in PuncBytes
          /\ out_cues[n].lines[1] # << >>
          /\ out_cues[n].lines[2] # << >>

BasicSplitCall ==
    /\ in_segments \in BasicSplitInputs
    /\ post_cfg = [Default EXCEPT !.max_lines = 2]
    /\ stage = "done"
IThink == <<"I", " ", "t", "h", "i", "n", "k">>
IThinkIWould == IThink \o <<" ", "I", " ", "w", "o", "u", "l", "d">>

C20_ZeroLinesAsOne ==
    (stage = "done" /\ post_cfg.max_lines = 0) =>
        out_cues = process_segments(in_segments,
                                    [post_cfg EXCEPT !.max_lines = 1], silence)

\* The stepwise run returns what the function returns.
FormatterAgrees ==
    stage = "done" => out_cues = process_segments(in_segments, post_cfg, silence)

(***************************************************************************)
(* C21.  Two calls at once.                                                *)
(***************************************************************************)
\* What the observers of call c are told by its own chunk and hypothesis
\* loops: the events of the call itself, the bridged decoder reports aside.
OwnNotifications(c) ==
    SelectSeq(calls[c].events, LAMBDA e : e.from = c /\ e.kind # "bridge")

\* Nothing a call has read from the static was put there by a call, and
\* nothing its observers were told came from the other call or from the
\* bridge.
C21_Isolated ==
    \A c \in DOMAIN calls :
        /\ \A k \in 1..Len(calls[c].reads) : calls[c].reads[k].slot = None
        /\ calls[c].events = OwnNotifications(c)

\* A step of one call leaves the static as it was and leaves the other
\* call's position, reads and notifications as they were.
C21_StepFrame ==
    \A c \in DOMAIN calls :
        StepOfCall(c) =>
            /\ PROGRESS_CALLBACK' = PROGRESS_CALLBACK
            /\ calls'[Other(c)] = calls[Other(c)]

\* C21: of two run_transcription_pipeline calls running at once, no step of
\* one (its setting up of the progress bridge, its decoding, its clearing of
\* the bridge, its reading of the cancellation predicate) changes what the
\* other one reads or what the other one's observers are told.
C21_NoCrossCallInterference == []C21_Isolated /\ [][C21_StepFrame]_vars

\* Call 1 has returned, clearing the bridge, while call 2 was running; after
\* that call 2 decoded a chunk, the decoder reporting progress to the
\* bridge, and told its observers of the segment.
C21_Witness ==
    /\ calls # << >>
    /\ calls[1].pc = "done"
    /\ calls[1].events # << >>
    /\ calls[2].pc = "done"
    /\ \E k \in 1..Len(calls[2].reads) :
          /\ calls[2].reads[k].reported
          /\ 1 \in calls[2].reads[k].returned
          /\ \E n \in 1..Len(calls[2].events) :
                calls[2].events[n].chunk = calls[2].reads[k].chunk

(***************************************************************************)
(* C22.  Two downloads at once.                                            *)
(***************************************************************************)
\* C22: once a newer ensure_hub_model call has installed its token and
\* advanced DOWNLOAD_GENERATION, the older download makes no progress
\* callback of any kind any more, its completion callback included.
C22_OnlyNewestDelivers ==
    \A k \in 1..Len(deliveries) : ~deliveries[k].stale

\* What does hold: the callbacks of the progress adapter (emit) are not made
\* by a superseded download.
StaleEmitSilent ==
    \A k \in 1..Len(deliveries) :
        deliveries[k].kind = "progress" => ~deliveries[k].stale

(***************************************************************************)
(* C23.  The window of a cue.                                              *)
(***************************************************************************)
\* The m tokens of the group after its first a tokens.
WindowOf(group, a, m) == SubSeq(group, a + 1, a + m)

\* The test on the current window under which a next token, if there is
\* one, is taken: duration (at least 1 ms) under max_sub_dur, and characters
\* per second within cps_cap or characters under
\* max_chars_per_line * max_lines.
MayExtend(win, cfg) ==
    LET dur == Max(Last(win).end - win[1].start, Ms)
        chars == slice_chars(win)
    IN /\ dur < cfg.max_sub_dur
       /\ \/ chars * 1000 * Ms <= cfg.cps_cap * dur
          \/ chars < cfg.max_chars_per_line * cfg.max_lines

\* The step of the cueing loop that makes a cue: the cue's tokens are the
\* largest window from the loop's position on each of whose proper prefixes
\* may be extended; the cue ends with its last token and starts at
\* cue_start(first token start); the loop goes on at the first token after
\* the window.
CueIsMaximalWindow(cue_start(_)) ==
    (stage = "cueing" /\ Len(out_cues') = Len(out_cues) + 1) =>
        LET group == tok_groups[g_idx]
            cue == Last(out_cues')
            n == Len(cue.words)
            win == WindowOf(group, t_idx, n)
        IN /\ n >= 1
           /\ t_idx + n <= Len(group)
           /\ \A m \in 1..(n - 1) :
                 MayExtend(WindowOf(group, t_idx, m), post_cfg)
           /\ t_idx + n = Len(group) \/ ~MayExtend(win, post_cfg)
           /\ cue.words = [k \in 1..n |->
                              [word |-> win[k].word \o win[k].punc,
                               start |-> win[k].start, end |-> win[k].end,
                               probability |-> win[k].prob]]
           /\ cue.start = cue_start(win[1].start)
           /\ cue.end = win[n].end
           /\ IF t_idx + n < Len(group)
              THEN g_idx' = g_idx /\ t_idx' = t_idx + n
              ELSE g_idx' = g_idx + 1 /\ t_idx' = 0

\* C23 as stated: build_cue takes the next token exactly while there is
\* one, the window's duration is under max_sub_dur and its characters per
\* second are within cps_cap or its characters under
\* max_chars_per_line * max_lines; the cue is that window, its span is
\* [first token start, last token end], and the next cue starts at the first
\* token not consumed.
C23_CueSpansItsWindow ==
    [][CueIsMaximalWindow(LAMBDA t : t)]_vars

\* C23, amended: the same, but the cue starts at the first token's start or
\* at 0, whichever is later.
C23_CueSpansItsWindowFromZero ==
    [][CueIsMaximalWindow(LAMBDA t : Max(t, 0))]_vars

\* Two cues of one group: the first window took a second token and stopped
\* there although the group goes on, and the second cue starts with the
\* group's third token.
C23_Witness ==
    /\ stage = "done"
    /\ Len(out_cues) >= 2
    /\ cue_group[1] = 1
    /\ cue_group[2] = 1
    /\ Len(out_cues[1].words) = 2
    /\ Len(tok_groups[1]) >= 3
    /\ out_cues[2].words[1].start = tok_groups[1][3].start

(***************************************************************************)
(* C24.  The split chosen.                                                 *)
(***************************************************************************)
\* The candidate indices of a slice, as a set.
CandidateSet(slice, cfg) ==
    {k \in 1..(Len(slice) - 1) : IsCandidate(slice, k, cfg)}

\* The lines of a slice split after its first k tokens.
SplitAt(slice, k) ==
    <<render_slice(SubSeq(slice, 1, k)),
      render_slice(SubSeq(slice, k + 1, Len(slice)))>>

\* k is a candidate with the lowest score, and the smallest such.
IsFirstLowest(slice, k, cfg) ==
    /\ k \in CandidateSet(slice, cfg)
    /\ \A c \in CandidateSet(slice, cfg) :
          /\ Score(slice, k, cfg) <= Score(slice, c, cfg)
          /\ Score(slice, c, cfg) = Score(slice, k, cfg) => k <= c

\* The tokens of the cue that a step of the cueing loop makes.
NewCueWindow ==
    WindowOf(tok_groups[g_idx], t_idx, Len(Last(out_cues').words))

\* C24: when max_lines > 1, the lines of a cue that has candidate splits
\* are its tokens split at the candidate with the lowest score (length
\* penalty of both lines, word-count penalty, syntax penalty, break-quality
\* term), and at the smallest index among the candidates with that score.
C24_LowestScoreFirstFound ==
    [][(/\ stage = "cueing"
        /\ Len(out_cues') = Len(out_cues) + 1
        /\ post_cfg.max_lines > 1
        /\ CandidateSet(NewCueWindow, post_cfg) # {})
       => \E k \in CandidateSet(NewCueWindow, post_cfg) :
             /\ IsFirstLowest(NewCueWindow, k, post_cfg)
             /\ Last(out_cues').lines = SplitAt(NewCueWindow, k)]_vars

\* One cue of three tokens in two lines, returned with max_lines = 2: both
\* candidates have the same score, above 0, and the split is after the
\* first token.
C24_Witness ==
    /\ stage = "done"
    /\ post_cfg.max_lines = 2
    /\ Len(tok_groups) = 1
    /\ Len(tok_groups[1]) = 3
    /\ Len(out_cues) = 1
    /\ CandidateSet(tok_groups[1], post_cfg) = {1, 2}
    /\ Score(tok_groups[1], 1, post_cfg) = Score(tok_groups[1], 2, post_cfg)
    /\ Score(tok_groups[1], 1, post_cfg) > 0
    /\ out_cues[1].lines = SplitAt(tok_groups[1], 1)
    /\ out_cues[1].lines # SplitAt(tok_groups[1], 2)

\* A cue of three tokens whose second candidate has the lower score, and is
\* the split.
LaterCandidateWins ==
    /\ stage = "done"
    /\ post_cfg.max_lines = 2
    /\ Len(tok_groups) = 1
    /\ Len(tok_groups[1]) = 3
    /\ Len(out_cues) = 1
    /\ Score(tok_groups[1], 2, post_cfg) < Score(tok_groups[1], 1, post_cfg)
    /\ out_cues[1].lines = SplitAt(tok_groups[1], 2)

(***************************************************************************)
(* C25.  Groups end at sentence ends.                                      *)
(***************************************************************************)
\* The sentence-terminal punctuation marks (is_terminal_punct, line 189).
TerminalMarks == {".", "!", "?", Ellipsis, CjkStop, CjkExcl, CjkQuest}

\* Does the text of token t end in a sentence-terminal mark?
EndsSentence(t) ==
    render_token(t) # << >> /\ Last(render_token(t)) \in TerminalMarks

Grouped == stage \in {"cueing", "done"} /\ tok_groups # << >>

\* Every boundary between two groups is after a token that ends a sentence
\* or at a gap of at least split_gap_sec.
GroupBoundariesJustified ==
    Grouped =>
        \A g \in 1..(Len(tok_groups) - 1) :
            \/ EndsSentence(Last(tok_groups[g]))
            \/ tok_groups[g + 1][1].start - Last(tok_groups[g]).end
                  >= post_cfg.split_gap_sec

\* C25: after grouping, a token whose text ends in sentence-terminal
\* punctuation is the last token of its group, and every group boundary is
\* after such a token or at a gap of at least split_gap_sec.
C25_GroupsEndAtSentenceEnds ==
    /\ Grouped =>
          \A g \in 1..Len(tok_groups) :
              \A k \in 1..(Len(tok_groups[g]) - 1) :
                  ~EndsSentence(tok_groups[g][k])
    /\ GroupBoundariesJustified

WordsOf(seg) == IF IsSome(seg.words) THEN Unwrap(seg.words) ELSE << >>

\* C27: in a returned list every segment has start <= end and every word of
\* a word list has start <= end, the segments and words that the overlap
\* trim has shortened included.
C27_StartBeforeEnd ==
    result = "Ok" =>
        \A k \in 1..Len(segments) :
            /\ segments[k].start <= segments[k].end
            /\ \A n \in 1..Len(WordsOf(segments[k])) :
                  WordsOf(segments[k])[n].start <= WordsOf(segments[k])[n].end

\* A returned list whose first segment, with a word list, was trimmed below
\* its own start and below its last word's start.
TrimmedBelowStart ==
    /\ result = "Ok"
    /\ Len(segments) = 2
    /\ WordsOf(segments[1]) # << >>
    /\ segments[1].end < segments[1].start
    /\ Last(WordsOf(segments[1])).end < Last(WordsOf(segments[1])).start

(***************************************************************************)
(* C28.  What the observer saw and what is returned.                       *)
(***************************************************************************)
\* Segment `ret` is segment `seen` with, at most, its end and its last
\* word's end lowered.
SameButTrimmed(seen, ret) ==
    /\ ret.start = seen.start
    /\ ret.text = seen.text
    /\ ret.speaker_id = seen.speaker_id
    /\ ret.end <= seen.end
    /\ IsSome(ret.words) = IsSome(seen.words)
    /\ Len(WordsOf(ret)) = Len(WordsOf(seen))
    /\ \A n \in 1..Len(WordsOf(seen)) :
          LET a == WordsOf(seen)[n]
              b == WordsOf(ret)[n]
          IN /\ b.word = a.word
             /\ b.start = a.start
             /\ b.probability = a.probability
             /\ IF n < Len(WordsOf(seen)) THEN b.end = a.end
                ELSE b.end <= a.end

\* Every segment the new-segment observer was handed is in the list at the
\* index it was announced for, the same but for the trim, and the last
\* segment of the list is exactly what the observer was handed.
C28_Seen ==
    \A n \in 1..Len(SegmentEvents) :
        LET e == SegmentEvents[n]
        IN /\ e.len + 1 <= Len(segments)
           /\ SameButTrimmed(e.segment, segments[e.len + 1])
           /\ e.len + 1 = Len(segments) => segments[e.len + 1] = e.segment

\* No step changes a segment that has a segment after it, or removes one.
C28_Frozen ==
    /\ Len(segments') >= Len(segments)
    /\ \A k \in 1..(Len(segments) - 1) : segments'[k] = segments[k]

\* C28: the segment handed to the new-segment observer equals the segment at
\* the same index of the returned list in start, text, speaker label and
\* words, except that its end and its last word's end may have been lowered
\* by the trim of the next append; a segment with a segment after it is
\* never modified again, and the last segment is returned as it was handed
\* over.
C28_ObservedIsReturned == []C28_Seen /\ [][C28_Frozen]_vars

\* A returned list of two segments with word lists, both handed to the
\* observer: the first one's end and its last word's end are lower in the
\* list than they were when the observer saw it, the second is unchanged.
C28_Witness ==
    /\ result = "Ok"
    /\ Len(segments) = 2
    /\ Len(SegmentEvents) = 2
    /\ WordsOf(segments[1]) # << >>
    /\ segments[1].end < SegmentEvents[1].segment.end
    /\ Last(WordsOf(segments[1])).end
          < Last(WordsOf(SegmentEvents[1].segment)).end
    /\ segments[1].start <= segments[1].end
    /\ segments[2] = SegmentEvents[2].segment

(***************************************************************************)
(* C29                                                                     *)
(***************************************************************************)
RECURSIVE ConcatAll(_)
ConcatAll(seqs) ==
    IF seqs = << >> THEN << >> ELSE Head(seqs) \o ConcatAll(Tail(seqs))
AllCueWords == ConcatAll([n \in 1..Len(out_cues) |-> out_cues[n].words])
\* The merged token stream as build_cue renders it (line 305).
RenderedToks ==
    [k \in 1..Len(fmt_toks) |->
        [word |-> render_token(fmt_toks[k]), start |-> fmt_toks[k].start,
         end |-> fmt_toks[k].end, probability |-> fmt_toks[k].prob]]
WithoutSpaces(str) == SelectSeq(str, LAMBDA ch : ch # " ")
InputText ==
    ConcatAll([k \in 1..Len(InputWords) |-> WithoutSpaces(InputWords[k].word)])
CueText ==
    ConcatAll([k \in 1..Len(AllCueWords) |-> WithoutSpaces(AllCueWords[k].word)])

C29_Partitioned ==
    stage = "done" /\ Flatten(in_segments) # << >> =>
        /\ \A n \in 1..Len(out_cues) : out_cues[n].words # << >>
        /\ AllCueWords = RenderedToks
        /\ CueText = InputText

\* C29: process_segments returns for every input, and the returned cues
\* partition the token stream left by the tiny-word merge: the words of
\* the cues, read cue after cue, are exactly the merged tokens in their
\* order, no cue is without words, and the text of the cue words holds
\* the text of every input word once and in order (the spaces that the
\* merge adds aside).
C29_ReturnsAPartition ==
    /\ (stage = "start") ~> (stage = "done")
    /\ []C29_Partitioned

\* A call returned two cues, and one of their words was merged from two
\* input words.
C29_Witness ==
    /\ stage = "done"
    /\ Len(out_cues) >= 2
    /\ Len(fmt_toks) < Len(InputWords)
    /\ AllCueWords = RenderedToks


(***************************************************************************)
(* C30                                                                     *)
(***************************************************************************)
\* C30: the cues returned by process_segments are in time order and never
\* overlap: every cue ends no later than the cue after it starts, whatever
\* the timings of the input words (overlapping words and words shorter than
\* min_word_dur included) and whatever the silence oracle answers.
C30_CuesNeverOverlap ==
    \A n \in 1..(Len(out_cues) - 1) : out_cues[n].end <= out_cues[n + 1].start

\* The same for the input words alone: each ends no later than the next
\* one starts.
InputChronological ==
    \A k \in 1..(Len(InputWords) - 1) : InputWords[k].end <= InputWords[k + 1].start
\* With words in chronological order the cues do not overlap.
ChronologicalCuesNeverOverlap == InputChronological => C30_CuesNeverOverlap

====
